---- MODULE Spec2Model ----
(***************************************************************************)
(* Anchor capacity engine of Constratum/engineering-standards:             *)
(*   src/en_standards/ETAG001C_R045_2013.py  (ETAG 001 Annex C / TR 045)   *)
(*   src/nz_standards/NZS_3101_1_22006.py    (NZS 3101 chapter 17)         *)
(*                                                                         *)
(* Number representation.  The program computes in IEEE doubles; the model *)
(* computes in integers:                                                   *)
(*   lengths                  tenths of a millimetre                       *)
(*   embedment_depth (ETAG)   thousandths of a millimetre (59.999 mm is    *)
(*                            59999)                                       *)
(*   concrete strength        hundredths of a MPa                          *)
(*   catalog resistances      tenths of a kN (as tabulated in the ETA)     *)
(*   alpha_gap                halves (0.5 is 1, 1.0 is 2)                  *)
(*   seismic factors          twentieths (0.85 is 17, 0.75 is 15)          *)
(*   safety factors, k1       tenths (1.5 is 15, 7.2 is 72)                *)
(*   "..._seis" resistances   1/400 kN  (= gap/2 * seis/20 * tenths of kN) *)
(*   design resistances       1/600 kN  (= 1/400 kN divided by 1.5)        *)
(*   dimensionless factors    exact fractions <<numerator, denominator>>   *)
(* Products of rational quantities are exact.  Square roots and fractional *)
(* powers are evaluated in fixed point, rounded down.                      *)
(***************************************************************************)
EXTENDS Integers, Sequences, FiniteSets, TLC

VARIABLES obj, call, ret, stdout

vars == <<obj, call, ret, stdout>>

(***************************************************************************)
(* Python values                                                           *)
(***************************************************************************)
\* Optional[float]: None is the empty tuple, a value v is <<v>>.
None == <<>>

Some(v) == <<v>>

\* float("inf") (ETAG001C_R045_2013.py line 1393): above every finite value.
Inf == 2147483647

Min2(a, b) == IF a <= b THEN a ELSE b

Max2(a, b) == IF a >= b THEN a ELSE b

\* The first of three values.
First3(a, b, c) == a

\* Python's min(a, b, c): the first smallest argument.
Min3(a, b, c) == Min2(Min2(a, b), c)

Min4(a, b, c, d) == Min2(Min3(a, b, c), d)

Abs(x) == IF x < 0 THEN -x ELSE x

(***************************************************************************)
(* Arithmetic on fractions <<n, d>>, d > 0                                 *)
(***************************************************************************)
One == <<1, 1>>

RLe(p, q) == p[1] * q[2] <= q[1] * p[2]

REq(p, q) == p[1] * q[2] = q[1] * p[2]

RMin(p, q) == IF RLe(p, q) THEN p ELSE q

RMax(p, q) == IF RLe(q, p) THEN p ELSE q

\* The difference q - p.
RDiff(p, q) == <<q[1] * p[2] - p[1] * q[2], p[2] * q[2]>>

RAdd(p, q) == <<p[1] * q[2] + q[1] * p[2], p[2] * q[2]>>

\* <<quotient, remainder>> of x*n divided by d, without forming x*n.
RECURSIVE MulDivQR(_, _, _)
MulDivQR(x, n, d) ==
  IF x = 0 THEN <<0, 0>>
  ELSE LET h == MulDivQR(x \div 2, n, d)
           t == 2 * h[2] + (x % 2) * n
       IN  <<2 * h[1] + (t \div d), t % d>>

\* floor(x * n / d) for x, n >= 0 and d > 0 (the model has no other case).
MulDiv(x, n, d) == IF x >= 0 /\ n >= 0 /\ d > 0 THEN MulDivQR(x, n, d)[1] ELSE 0

\* x times the fraction p, rounded down.
Times(x, p) == MulDiv(x, p[1], p[2])

\* p <= limit for fractions with p[1] >= 0, p[2] > 0 and a positive limit,
\* without forming the cross products.
RLeLimit(p, limit) == p[1] <= MulDiv(p[2], limit[1], limit[2])

RECURSIVE ISqrtIter(_, _, _)
ISqrtIter(n, lo, hi) ==
  IF lo >= hi THEN lo
  ELSE LET mid == (lo + hi + 1) \div 2
       IN  IF mid * mid <= n THEN ISqrtIter(n, mid, hi)
           ELSE ISqrtIter(n, lo, mid - 1)

\* floor(sqrt(n)), the model of np.sqrt on a scaled integer.
ISqrt(n) == ISqrtIter(n, 0, 46340)

\* sqrt of a number held in ten-thousandths, in ten-thousandths.
SqrtFix(x) == IF x < 200000 THEN ISqrt(x * 10000) ELSE ISqrt(x * 100) * 10

\* x^(e/4096) for 0 <= e < 4096, x and the result in ten-thousandths: the
\* product of the repeated square roots of x selected by the bits of e.
RECURSIVE PowBits(_, _, _)
PowBits(root, e, bit) ==
  IF bit = 0 \/ e = 0 THEN 10000
  ELSE LET next == SqrtFix(root)
           rest == IF next >= 0 THEN PowBits(next, e % bit, bit \div 2) ELSE 10000
       IN  IF rest >= 0 /\ e >= bit THEN MulDiv(root, rest, 10000) ELSE rest

\* np.power(x, y) for 0 <= y < 1: x in ten-thousandths, y in ten-thousandths.
PowFix(x, y) == PowBits(SqrtFix(x), MulDiv(y, 4096, 10000), 2048)

(***************************************************************************)
(* Constants of ETAG 001 Annex C and EOTA TR 045                           *)
(***************************************************************************)
\* Partial safety factors, in tenths.
ETAG_001_PARTIAL_SAFETY_FACTORS == [gamma_Mc |-> 15, gamma_Ms |-> 15, gamma_Mp |-> 15]

\* k1 coefficients, in tenths.
ETAG_001_CONCRETE_CONSTANTS ==
  [k1_tension_cracked |-> 72, k1_tension_uncracked |-> 89,
   k1_shear_cracked |-> 17, k1_shear_uncracked |-> 24, k_pryout |-> 20]

\* EOTA TR 045 Table 5.4, in twentieths.
EOTA_TR045_SEISMIC_FACTORS ==
  [tension_steel_single |-> 20, tension_pullout_single |-> 20,
   tension_concrete_single_undercut |-> 20, tension_concrete_single_other |-> 17,
   shear_steel_single |-> 20, shear_concrete_single |-> 20,
   shear_pryout_single_undercut |-> 20, shear_pryout_single_other |-> 17,
   tension_steel_group |-> 20, tension_pullout_group |-> 17,
   tension_concrete_group_undercut |-> 17, tension_concrete_group_other |-> 15,
   shear_steel_group |-> 17, shear_concrete_group |-> 17,
   shear_pryout_group_undercut |-> 17, shear_pryout_group_other |-> 15]

(***************************************************************************)
(* Outcome of a call                                                       *)
(***************************************************************************)
NoReturn == [kind |-> "none"]

Return(v) == [kind |-> "return", value |-> v]

Raise(e, m) == [kind |-> "raise", error |-> e, message |-> m]

Returned(r) == r.kind = "return"

Raised(r) == r.kind = "raise"

(***************************************************************************)
(* AnchorProperties_ETAG                                                   *)
(***************************************************************************)
\* __post_init__: the cube strength defaults to f_ck / 0.8.
post_init(a) ==
  IF a.concrete_strength_cube = None
  THEN [a EXCEPT !.concrete_strength_cube = Some((a.concrete_strength * 10) \div 8)]
  ELSE a

(***************************************************************************)
(* MetalAnchorCapacity_ETAG001_TR045                                       *)
(***************************************************************************)
\* A validation that accepts every anchor.
no_validation(a) == NoReturn

\* _validate_inputs: the exception it raises, or NoReturn.  The strength
\* warning is printed, not raised.
validate_inputs(a) ==
  IF a.diameter <= 0 \/ a.embedment_depth <= 0
  THEN Raise("ValueError", "ETAG 001: Geometric properties must be positive")
  ELSE IF a.number_of_anchors = 2 /\ a.spacing = None
  THEN Raise("ValueError", "ETAG 001: spacing must be provided for 2-anchor configuration")
  ELSE IF a.number_of_anchors = 4 /\ (a.spacing_x = None \/ a.spacing_y = None)
  THEN Raise("ValueError", "ETAG 001: spacing_x and spacing_y must be provided for 4-anchor configuration")
  ELSE NoReturn

validate_warning(a) ==
  IF ~(2000 <= a.concrete_strength /\ a.concrete_strength <= 5000)
  THEN <<"Warning: ETAG 001 Annex C requires C20/25 to C50/60 concrete.">>
  ELSE <<>>

\* A calculator whose seismic factors are all 1.0.
unreduced_factors(a) ==
  [kind |-> "MetalAnchorCapacity_ETAG001_TR045", anchor |-> a,
   gamma_Ms |-> 15, gamma_Mc |-> 15, gamma_Mp |-> 15,
   alpha_seis_steel_tension |-> 20, alpha_seis_pullout |-> 20,
   alpha_seis_concrete |-> 20, alpha_seis_steel_shear |-> 20,
   alpha_seis_concrete_shear |-> 20, alpha_seis_pryout |-> 20]

\* _initialize_factors reading the seismic and the safety-factor table it is
\* given: the calculator's attributes for anchor a.
initialize_factors_from(seismic_factors, safety_factors, a) ==
  LET T == seismic_factors
      is_group == a.number_of_anchors > 1
      is_undercut == a.is_undercut_anchor
      base == [kind |-> "MetalAnchorCapacity_ETAG001_TR045", anchor |-> a,
               gamma_Ms |-> safety_factors.gamma_Ms,
               gamma_Mc |-> safety_factors.gamma_Mc,
               gamma_Mp |-> safety_factors.gamma_Mp]
  IN  IF a.seismic_design
      THEN IF is_group
           THEN base @@
                [alpha_seis_steel_tension |-> T.tension_steel_group,
                 alpha_seis_pullout |-> T.tension_pullout_group,
                 alpha_seis_concrete |->
                   IF is_undercut THEN T.tension_concrete_group_undercut
                   ELSE T.tension_concrete_group_other,
                 alpha_seis_steel_shear |-> T.shear_steel_group,
                 alpha_seis_concrete_shear |-> T.shear_concrete_group,
                 alpha_seis_pryout |->
                   IF is_undercut THEN T.shear_pryout_group_undercut
                   ELSE T.shear_pryout_group_other]
           ELSE base @@
                [alpha_seis_steel_tension |-> T.tension_steel_single,
                 alpha_seis_pullout |-> T.tension_pullout_single,
                 alpha_seis_concrete |->
                   IF is_undercut THEN T.tension_concrete_single_undercut
                   ELSE T.tension_concrete_single_other,
                 alpha_seis_steel_shear |-> T.shear_steel_single,
                 alpha_seis_concrete_shear |-> T.shear_concrete_single,
                 alpha_seis_pryout |->
                   IF is_undercut THEN T.shear_pryout_single_undercut
                   ELSE T.shear_pryout_single_other]
      ELSE base @@
           [alpha_seis_steel_tension |-> 20, alpha_seis_pullout |-> 20,
            alpha_seis_concrete |-> 20, alpha_seis_steel_shear |-> 20,
            alpha_seis_concrete_shear |-> 20, alpha_seis_pryout |-> 20]

\* _initialize_factors: the calculator's attributes for anchor a, from the
\* module's tables.
initialize_factors(a) ==
  initialize_factors_from(EOTA_TR045_SEISMIC_FACTORS,
                          ETAG_001_PARTIAL_SAFETY_FACTORS, a)

\* A "..._seis" resistance (1/400 kN) divided by a safety factor (tenths):
\* the design resistance in 1/600 kN.
Design(N_Rk_seis, gamma) == (N_Rk_seis * 15) \div gamma

\* A steel resistance that grows with the anchor count.
steel_failure_tension_per_anchor(self) ==
  LET N0_Rk_s == self.anchor.N0_Rk_s
      alpha_gap == self.anchor.alpha_gap
      N_Rk_s_seis == alpha_gap * self.alpha_seis_steel_tension * N0_Rk_s
                       * self.anchor.number_of_anchors
  IN  [N0_Rk_s |-> N0_Rk_s, N_Rk_s_seis |-> N_Rk_s_seis,
       N_Rd_s |-> Design(N_Rk_s_seis, self.gamma_Ms),
       alpha_gap |-> alpha_gap, alpha_seis |-> self.alpha_seis_steel_tension,
       gamma_Ms |-> self.gamma_Ms]

\* Steel failure in tension, section 5.2.2.2.
steel_failure_tension_ETAG_5_2_2_2(self) ==
  LET N0_Rk_s == self.anchor.N0_Rk_s
      alpha_gap == self.anchor.alpha_gap
      N_Rk_s_seis == alpha_gap * self.alpha_seis_steel_tension * N0_Rk_s
  IN  [N0_Rk_s |-> N0_Rk_s, N_Rk_s_seis |-> N_Rk_s_seis,
       N_Rd_s |-> Design(N_Rk_s_seis, self.gamma_Ms),
       alpha_gap |-> alpha_gap, alpha_seis |-> self.alpha_seis_steel_tension,
       gamma_Ms |-> self.gamma_Ms]

\* Pull-out failure, section 5.2.2.3 (psi_c_seis = 1.0).
pullout_failure_ETAG_5_2_2_3(self) ==
  LET N0_Rk_p == self.anchor.N0_Rk_p
      alpha_gap == self.anchor.alpha_gap
      N_Rk_p_seis == alpha_gap * self.alpha_seis_pullout * N0_Rk_p
  IN  [N0_Rk_p |-> N0_Rk_p, N_Rk_p_seis |-> N_Rk_p_seis,
       N_Rd_p |-> Design(N_Rk_p_seis, self.gamma_Mp),
       alpha_gap |-> alpha_gap, alpha_seis |-> self.alpha_seis_pullout,
       gamma_Mp |-> self.gamma_Mp]

\* TWICE a projected area that the supplied spacing caps.
projected_area_spacing_capped(a) ==
  IF a.spacing # None THEN 2 * (Min2(a.spacing[1], a.s_cr_N) * a.s_cr_N)
  ELSE 2 * (a.s_cr_N * a.s_cr_N)

\* A projected area that adds the spacing as supplied, without the cap.
projected_area_uncapped(a) ==
  LET s == IF a.spacing # None THEN a.spacing[1] ELSE a.s_cr_N
  IN  2 * ((a.s_cr_N + s) * a.s_cr_N)

\* _calculate_projected_area_tension: TWICE the projected area A_c,N (the
\* near-edge width c1_eff + s_cr_N / 2 is a half-integer), in (mm/10)^2.
calculate_projected_area_tension(a) ==
  LET s_cr_N == a.s_cr_N
      c_cr_N == a.c_cr_N
      c1 == a.edge_distance
      n == a.number_of_anchors
      c1_eff == Min2(c1, c_cr_N)
  IN  IF n = 1
      THEN IF c1 >= c_cr_N THEN 2 * (s_cr_N * s_cr_N)
           ELSE (2 * c1_eff + s_cr_N) * s_cr_N
      ELSE IF n = 2
      THEN LET s == IF a.spacing # None THEN a.spacing[1] ELSE s_cr_N
               s_eff == Min2(s, s_cr_N)
           IN  IF c1 >= c_cr_N THEN 2 * ((s_cr_N + s_eff) * s_cr_N)
               ELSE (2 * c1_eff + s_cr_N) * (s_cr_N + s_eff)
      ELSE IF n = 4
      THEN LET s_x == IF a.spacing_x # None THEN a.spacing_x[1] ELSE s_cr_N
               s_y == IF a.spacing_y # None THEN a.spacing_y[1] ELSE s_cr_N
               s_x_eff == Min2(s_x, s_cr_N)
               s_y_eff == Min2(s_y, s_cr_N)
           IN  IF c1 >= c_cr_N
               THEN 2 * ((s_cr_N + s_x_eff) * (s_cr_N + s_y_eff))
               ELSE (2 * c1_eff + s_cr_N + 2 * s_x_eff) * (s_cr_N + s_y_eff)
      ELSE 2 * (s_cr_N * s_cr_N)

\* Eq (5.2a): N0_Rk,c = k1 * sqrt(f_ck,cube) * h_ef^1.5 / 1000 kN, in N.
\* sqrt(f_ck,cube * h_ef) is taken to two decimals.
N0_Rk_c_of(k1, f_ck_cube, h_ef) ==
  MulDiv(k1 * ISqrt(f_ck_cube * (h_ef \div 10)), h_ef, 1000000)

\* 0.7 + 0.3 * (c / c_cr_N), without a cap.
psi_s_N_uncapped(c, c_cr_N) == <<7 * c_cr_N + 3 * c, 10 * c_cr_N>>

\* Eq (5.2c): psi_s,N = min(0.7 + 0.3 * (min(c, c_cr_N) / c_cr_N), 1.0).
psi_s_N_of(c, c_cr_N) ==
  LET c_min == Min2(c, c_cr_N)
  IN  RMin(<<7 * c_cr_N + 3 * c_min, 10 * c_cr_N>>, One)

\* Eq (5.2d): psi_re,N = min(0.5 + h_ef / 200, 1.0).
psi_re_N_of(h_ef) == RMin(<<100000 + h_ef, 200000>>, One)

\* Eq (5.2e): psi_ec,N = min(1 / (1 + 2 * |e_N| / s_cr_N), 1.0) if s_cr_N > 0
\* else 1.0.
psi_ec_N_of(e_N, s_cr_N) ==
  IF s_cr_N > 0 THEN RMin(<<s_cr_N, s_cr_N + 2 * Abs(e_N)>>, One) ELSE One

\* N0_Rk,c * area_ratio * psi_s,N * psi_re,N * psi_ec1,N * psi_ec2,N, the
\* part of Eq (5.2) and Eq (5.6) without alpha_gap and alpha_seis: from N to
\* tenths of a kN.
ConcreteProduct(N0_Rk_c, area_ratio, psi_s_N, psi_re_N, psi_ec1_N, psi_ec2_N) ==
  Times(Times(Times(Times(Times(N0_Rk_c, area_ratio), psi_s_N), psi_re_N),
              psi_ec1_N), psi_ec2_N) \div 100

\* Concrete cone failure, section 5.2.2.4.  A zero s_cr_N or c_cr_N makes
\* the float divisions A_c_N / A0_c_N and c_min / c_cr_N raise.
concrete_cone_failure_ETAG_5_2_2_4(self) ==
  LET a == self.anchor
      k1 == IF a.is_cracked_concrete
            THEN ETAG_001_CONCRETE_CONSTANTS.k1_tension_cracked
            ELSE ETAG_001_CONCRETE_CONSTANTS.k1_tension_uncracked
      f_ck_cube == a.concrete_strength_cube[1]
      h_ef == a.embedment_depth
      c == a.edge_distance
      s_cr_N == a.s_cr_N
      c_cr_N == a.c_cr_N
      alpha_gap == a.alpha_gap
      N0_Rk_c == N0_Rk_c_of(k1, f_ck_cube, h_ef)
      A0_c_N == s_cr_N * s_cr_N
      A_c_N == calculate_projected_area_tension(a)
      area_ratio == <<A_c_N, 2 * A0_c_N>>
      psi_s_N == psi_s_N_of(c, c_cr_N)
      psi_re_N == psi_re_N_of(h_ef)
      psi_ec1_N == psi_ec_N_of(a.e_N_x, s_cr_N)
      psi_ec2_N == psi_ec_N_of(a.e_N_y, s_cr_N)
      N_Rk_c_seis ==
        alpha_gap * self.alpha_seis_concrete
          * ConcreteProduct(N0_Rk_c, area_ratio, psi_s_N, psi_re_N,
                            psi_ec1_N, psi_ec2_N)
  IN  IF A0_c_N = 0 \/ c_cr_N = 0
      THEN Raise("ZeroDivisionError", "float division by zero")
      ELSE Return(
        [N0_Rk_c |-> N0_Rk_c, N_Rk_c_seis |-> N_Rk_c_seis,
         N_Rd_c |-> Design(N_Rk_c_seis, self.gamma_Mc),
         k1 |-> k1, f_ck_cube |-> f_ck_cube, h_ef |-> h_ef,
         A_c_N |-> A_c_N, A0_c_N |-> A0_c_N, area_ratio |-> area_ratio,
         s_cr_N |-> s_cr_N, c_cr_N |-> c_cr_N,
         psi_s_N |-> psi_s_N, psi_re_N |-> psi_re_N,
         psi_ec1_N |-> psi_ec1_N, psi_ec2_N |-> psi_ec2_N,
         alpha_gap |-> alpha_gap, alpha_seis |-> self.alpha_seis_concrete,
         gamma_Mc |-> self.gamma_Mc])

\* A label that does not look at the capacities.
steel_label(N_Rd, N_Rd_steel, N_Rd_pullout) == "Steel Failure (ETAG 5.2.2.2)"

\* The governing_mode label of calculate_tension_capacity_ETAG_5_2_2.
tension_governing_mode(N_Rd, N_Rd_steel, N_Rd_pullout) ==
  IF N_Rd = N_Rd_steel THEN "Steel Failure (ETAG 5.2.2.2)"
  ELSE IF N_Rd = N_Rd_pullout THEN "Pull-out Failure (ETAG 5.2.2.3)"
  ELSE "Concrete Cone Failure (ETAG 5.2.2.4)"

\* Overall tension capacity, section 5.2.2: the minimum of the three modes.
calculate_tension_capacity_ETAG_5_2_2(self) ==
  CHOOSE result \in
    {LET N_Rd_steel == steel_result.N_Rd_s
         N_Rd_pullout == pullout_result.N_Rd_p
         N_Rd_concrete == concrete_result.value.N_Rd_c
         N_Rd == Min3(N_Rd_steel, N_Rd_pullout, N_Rd_concrete)
     IN  IF Raised(concrete_result) THEN concrete_result
         ELSE Return(
           [N_Rd |-> N_Rd, N_Rd_steel |-> N_Rd_steel,
            N_Rd_pullout |-> N_Rd_pullout, N_Rd_concrete |-> N_Rd_concrete,
            governing_mode |-> tension_governing_mode(N_Rd, N_Rd_steel, N_Rd_pullout),
            steel_details |-> steel_result, pullout_details |-> pullout_result,
            concrete_details |-> concrete_result.value]) :
       steel_result \in {steel_failure_tension_ETAG_5_2_2_2(self)},
       pullout_result \in {pullout_failure_ETAG_5_2_2_3(self)},
       concrete_result \in {concrete_cone_failure_ETAG_5_2_2_4(self)}} : TRUE

\* Steel shear of an anchor taken to sit without hole clearance.
steel_failure_shear_without_clearance(self) ==
  [V0_Rk_s |-> self.anchor.V0_Rk_s,
   V_Rk_s_seis |-> 2 * self.alpha_seis_steel_shear * self.anchor.V0_Rk_s,
   V_Rd_s |-> Design(2 * self.alpha_seis_steel_shear * self.anchor.V0_Rk_s,
                     self.gamma_Ms),
   alpha_gap |-> 2, alpha_seis |-> self.alpha_seis_steel_shear,
   gamma_Ms |-> self.gamma_Ms]

\* Steel failure in shear, section 5.2.3.2.
steel_failure_shear_ETAG_5_2_3_2(self) ==
  LET V0_Rk_s == self.anchor.V0_Rk_s
      alpha_gap == self.anchor.alpha_gap
      V_Rk_s_seis == alpha_gap * self.alpha_seis_steel_shear * V0_Rk_s
  IN  [V0_Rk_s |-> V0_Rk_s, V_Rk_s_seis |-> V_Rk_s_seis,
       V_Rd_s |-> Design(V_Rk_s_seis, self.gamma_Ms),
       alpha_gap |-> alpha_gap, alpha_seis |-> self.alpha_seis_steel_shear,
       gamma_Ms |-> self.gamma_Ms]

\* A multiplier that is 2.0 only above 60 mm.
k_pryout_above(h_ef) == IF h_ef > 60000 THEN 2 ELSE 1

\* The pry-out multiplier k: 2.0 for h_ef >= 60 mm, else 1.0.
k_pryout_of(h_ef) == IF h_ef >= 60000 THEN 2 ELSE 1

\* Concrete pry-out failure, section 5.2.3.3: k times the concrete cone
\* product with the pry-out seismic factor.
concrete_pryout_failure_ETAG_5_2_3_3(self) ==
  LET h_ef == self.anchor.embedment_depth
      k_pryout == k_pryout_of(h_ef)
      concrete_tension == concrete_cone_failure_ETAG_5_2_2_4(self)
      ct == concrete_tension.value
      alpha_gap == self.anchor.alpha_gap
      V_Rk_cp_seis ==
        k_pryout * alpha_gap * self.alpha_seis_pryout
          * ConcreteProduct(ct.N0_Rk_c, ct.area_ratio, ct.psi_s_N, ct.psi_re_N,
                            ct.psi_ec1_N, ct.psi_ec2_N)
  IN  IF Raised(concrete_tension) THEN concrete_tension
      ELSE Return(
        [V0_Rk_cp |-> k_pryout * ct.N0_Rk_c, V_Rk_cp_seis |-> V_Rk_cp_seis,
         V_Rd_cp |-> Design(V_Rk_cp_seis, self.gamma_Mc),
         k_pryout |-> k_pryout, N0_Rk_c |-> ct.N0_Rk_c,
         area_ratio |-> ct.area_ratio, psi_s_N |-> ct.psi_s_N,
         psi_re_N |-> ct.psi_re_N, psi_ec1_N |-> ct.psi_ec1_N,
         psi_ec2_N |-> ct.psi_ec2_N, alpha_gap |-> alpha_gap,
         alpha_seis |-> self.alpha_seis_pryout, gamma_Mc |-> self.gamma_Mc])

\* _calculate_projected_area_shear: FOUR times the projected area A_c,V (both
\* 1.5 * c1 and the default c2 = 1.5 * c1 are half-integers), in (mm/10)^2.
calculate_projected_area_shear(a) ==
  LET c1 == a.edge_distance
      c2x2 == IF a.edge_distance_c2 # None THEN 2 * a.edge_distance_c2[1] ELSE 3 * c1
      h == a.concrete_thickness
      n == a.number_of_anchors
      h_eff_x2 == IF h > 0 THEN Min2(2 * h, 3 * c1) ELSE 3 * c1
      c2_eff_x2 == Min2(c2x2, 3 * c1)
  IN  IF n = 1 THEN (2 * c2_eff_x2) * h_eff_x2
      ELSE IF n = 2
      THEN LET s == IF a.spacing # None THEN a.spacing[1] ELSE 0
               s_eff == Min2(s, 3 * c1)
           IN  (2 * c2_eff_x2 + 2 * s_eff) * h_eff_x2
      ELSE IF n = 4
      THEN LET s_y == IF a.spacing_y # None THEN a.spacing_y[1] ELSE 0
               s_y_eff == Min2(s_y, 3 * c1)
           IN  (2 * c2_eff_x2 + 2 * s_y_eff) * h_eff_x2
      ELSE 18 * (c1 * c1)

\* Eq (5.7a)-(5.7c): V0_Rk,c = k1 * d_nom^beta * l_f^alpha * sqrt(f_ck,cube)
\* * c1^1.5 / 1000 kN with alpha = 0.1 * (l_f/c1)^0.5 and beta = 0.1 *
\* (d_nom/c1)^0.2, in N.  Ratios, exponents and powers are in ten-thousandths.
V0_Rk_c_of(k1, d_nom, l_f, f_ck_cube, c1) ==
  LET alpha_exp == SqrtFix(MulDiv(l_f, 10000, c1)) \div 10
      beta_exp == PowFix(MulDiv(d_nom, 10000, c1), 2000) \div 10
      d_pow == PowFix(d_nom * 1000, beta_exp)
      l_pow == PowFix(l_f * 1000, alpha_exp)
      root == ISqrt(f_ck_cube * c1 * 10)
  IN  MulDiv(MulDiv(MulDiv(k1 * root, d_pow, 10000), l_pow, 10000), c1, 10000)

\* Eq (5.7e): psi_s,V = min(0.7 + 0.3 * (c2 / (1.5 * c1)), 1.0).
psi_s_V_of(c2, c1) == RMin(<<21 * c1 + 6 * c2, 30 * c1>>, One)

\* Eq (5.7f): psi_h,V = sqrt(1.5 * c1 / h) if 0 < h < 1.5 * c1 else 1.0; the
\* square root is taken to three decimals.
psi_h_V_of(h, c1) ==
  IF h > 0 /\ 2 * h < 3 * c1
  THEN <<ISqrt(MulDiv(3 * c1, 1000000, 2 * h)), 1000>>
  ELSE One

\* Eq (5.7g) at the load angle alpha_v = 0 the method fixes: cos = 1 and
\* sin = 0, so psi_alpha,V = max(sqrt(1 / (1 + 0)), 1.0).
psi_alpha_V_of(cos_alpha, sin_alpha) ==
  RMax(<<1000, ISqrt(1000000 * (cos_alpha * cos_alpha)
                     + 160000 * (sin_alpha * sin_alpha))>>, One)

\* Eq (5.7h): psi_ec,V = min(1 / (1 + 2 * |e_V| / (3 * c1)), 1.0) if c1 > 0
\* else 1.0.
psi_ec_V_of(e_V, c1) ==
  IF c1 > 0 THEN RMin(<<3 * c1, 3 * c1 + 2 * Abs(e_V)>>, One) ELSE One

\* Concrete edge failure, section 5.2.3.4.  An edge distance at or above
\* 9999 mm skips the mode: its resistances are float("inf").
concrete_edge_failure_ETAG_5_2_3_4(self) ==
  LET a == self.anchor
      k1 == IF a.is_cracked_concrete
            THEN ETAG_001_CONCRETE_CONSTANTS.k1_shear_cracked
            ELSE ETAG_001_CONCRETE_CONSTANTS.k1_shear_uncracked
      c1 == a.edge_distance
      c2 == IF a.edge_distance_c2 # None THEN a.edge_distance_c2[1] ELSE c1
      d_nom == a.diameter
      l_f == a.l_f
      f_ck_cube == a.concrete_strength_cube[1]
      h == a.concrete_thickness
      e_V == a.e_V
      alpha_gap == a.alpha_gap
      V0_Rk_c == V0_Rk_c_of(k1, d_nom, l_f, f_ck_cube, c1)
      A0_c_V == 18 * (c1 * c1)
      A_c_V == calculate_projected_area_shear(a)
      area_ratio == IF A0_c_V > 0 THEN <<A_c_V, A0_c_V>> ELSE One
      psi_s_V == psi_s_V_of(c2, c1)
      psi_h_V == psi_h_V_of(h, c1)
      psi_alpha_V == psi_alpha_V_of(1, 0)
      psi_ec_V == psi_ec_V_of(e_V, c1)
      psi_re_V == IF a.has_edge_reinforcement THEN <<14, 10>> ELSE <<10, 10>>
      V_Rk_c_seis ==
        alpha_gap * self.alpha_seis_concrete_shear
          * (Times(Times(Times(Times(Times(Times(V0_Rk_c, area_ratio), psi_s_V),
                                     psi_h_V), psi_alpha_V), psi_ec_V), psi_re_V)
             \div 100)
  IN  IF c1 >= 99990
      THEN Return([V0_Rk_c |-> Inf, V_Rk_c_seis |-> Inf, V_Rd_c |-> Inf,
                   skip_reason |->
                     "Edge distance set to infinity - edge failure not applicable"])
      ELSE IF c1 = 0
      THEN Raise("ZeroDivisionError", "float division by zero")
      ELSE Return(
        [V0_Rk_c |-> V0_Rk_c, V_Rk_c_seis |-> V_Rk_c_seis,
         V_Rd_c |-> Design(V_Rk_c_seis, self.gamma_Mc),
         k1 |-> k1, c1 |-> c1, c2 |-> c2, A_c_V |-> A_c_V, A0_c_V |-> A0_c_V,
         area_ratio |-> area_ratio, psi_s_V |-> psi_s_V, psi_h_V |-> psi_h_V,
         psi_alpha_V |-> psi_alpha_V, psi_ec_V |-> psi_ec_V,
         psi_re_V |-> psi_re_V, alpha_gap |-> alpha_gap,
         alpha_seis |-> self.alpha_seis_concrete_shear,
         gamma_Mc |-> self.gamma_Mc])

\* The label of the concrete edge mode, whatever the capacities are.
edge_label(V_Rd, V_Rd_steel, V_Rd_pryout) == "Concrete Edge Failure (ETAG 5.2.3.4)"

\* The governing_mode label of calculate_shear_capacity_ETAG_5_2_3.
shear_governing_mode(V_Rd, V_Rd_steel, V_Rd_pryout) ==
  IF V_Rd = V_Rd_steel THEN "Steel Failure (ETAG 5.2.3.2)"
  ELSE IF V_Rd = V_Rd_pryout THEN "Concrete Pry-out (ETAG 5.2.3.3)"
  ELSE "Concrete Edge Failure (ETAG 5.2.3.4)"

\* Overall shear capacity, section 5.2.3: the minimum of the three modes.
calculate_shear_capacity_ETAG_5_2_3(self) ==
  CHOOSE result \in
    {LET V_Rd_steel == steel_result.V_Rd_s
         V_Rd_pryout == pryout_result.value.V_Rd_cp
         V_Rd_concrete == concrete_edge_result.value.V_Rd_c
         V_Rd == Min3(V_Rd_steel, V_Rd_pryout, V_Rd_concrete)
     IN  IF Raised(pryout_result) THEN pryout_result
         ELSE IF Raised(concrete_edge_result) THEN concrete_edge_result
         ELSE Return(
           [V_Rd |-> V_Rd, V_Rd_steel |-> V_Rd_steel,
            V_Rd_pryout |-> V_Rd_pryout, V_Rd_concrete |-> V_Rd_concrete,
            governing_mode |-> shear_governing_mode(V_Rd, V_Rd_steel, V_Rd_pryout),
            steel_details |-> steel_result, pryout_details |-> pryout_result.value,
            concrete_edge_details |-> concrete_edge_result.value]) :
       steel_result \in {steel_failure_shear_ETAG_5_2_3_2(self)},
       pryout_result \in {concrete_pryout_failure_ETAG_5_2_3_3(self)},
       concrete_edge_result \in {concrete_edge_failure_ETAG_5_2_3_4(self)}} : TRUE

\* A utilization ratio: demand / capacity if capacity > 0 else 0.
beta_of(Ed, Rd) == IF Rd > 0 THEN <<Ed, Rd>> ELSE <<0, 1>>

\* A limit of 1.2.
limit_1_2 == <<6, 5>>

\* The limit check_interaction compares the utilization with: 1.0.
ETAG_interaction_limit == <<1, 1>>

\* The result dict of check_interaction for the two capacity results.
interaction_result(tension_result, shear_result, N_Ed, V_Ed) ==
  LET N_Rd == tension_result.N_Rd
      V_Rd == shear_result.V_Rd
      beta_N == beta_of(N_Ed, N_Rd)
      beta_V == beta_of(V_Ed, V_Rd)
      utilization == RAdd(beta_N, beta_V)
      compliance == RLe(utilization, ETAG_interaction_limit)
  IN  [utilization |-> utilization, compliance |-> compliance,
       status |-> IF compliance THEN "PASS" ELSE "FAIL",
       beta_N |-> beta_N, beta_V |-> beta_V, N_Ed |-> N_Ed, V_Ed |-> V_Ed,
       N_Rd |-> N_Rd, V_Rd |-> V_Rd,
       tension_result |-> tension_result, shear_result |-> shear_result]

\* Combined tension and shear, section 5.2.4: beta_N + beta_V <= 1.0.  The
\* two capacity results are computed once and bound to their names.
check_interaction(self, N_Ed, V_Ed) ==
  CHOOSE result \in
    {IF Raised(tension_result) THEN tension_result
     ELSE IF Raised(shear_result) THEN shear_result
     ELSE Return(interaction_result(tension_result.value, shear_result.value,
                                    N_Ed, V_Ed)) :
       tension_result \in {calculate_tension_capacity_ETAG_5_2_2(self)},
       shear_result \in {calculate_shear_capacity_ETAG_5_2_3(self)}} : TRUE

(***************************************************************************)
(* ETA catalog                                                             *)
(***************************************************************************)
\* One catalog entry: resistances in tenths of a kN, lengths in tenths of mm.
Entry(N0_Rk_s, N0_Rk_p, V0_Rk_s, s_cr_N, c_cr_N, l_f) ==
  [N0_Rk_s |-> N0_Rk_s, N0_Rk_p |-> N0_Rk_p, V0_Rk_s |-> V0_Rk_s,
   s_cr_N |-> s_cr_N, c_cr_N |-> c_cr_N, l_f |-> l_f]

\* The three grades of one embedment depth: they differ in N0_Rk_p only.
Grades(N0_Rk_s, p20, p25, p30, V0_Rk_s, s_cr_N, c_cr_N, l_f) ==
  ("C20/25" :> Entry(N0_Rk_s, p20, V0_Rk_s, s_cr_N, c_cr_N, l_f))
    @@ ("C25/30" :> Entry(N0_Rk_s, p25, V0_Rk_s, s_cr_N, c_cr_N, l_f))
    @@ ("C30/37" :> Entry(N0_Rk_s, p30, V0_Rk_s, s_cr_N, c_cr_N, l_f))

\* ETA_DATABASE, the products and diameters the model uses: product ->
\* diameter (tenths of mm) -> embedment depth (thousandths of mm) -> grade ->
\* entry.  Every dict of depths in the source is written in ascending order.
ETA_DATABASE ==
  ("HUS4-H" :>
     ((100 :> ((60000 :> Grades(560, 85, 95, 104, 168, 1800, 900, 600))
               @@ (80000 :> Grades(560, 113, 126, 138, 168, 2400, 1200, 800))))
      @@ (120 :> ((79900 :> Grades(790, 114, 127, 139, 237, 2397, 1199, 799))
                  @@ (100000 :> Grades(790, 143, 160, 175, 237, 3000, 1500, 1000))
                  @@ (122000 :> Grades(790, 174, 194, 213, 237, 3660, 1830, 1000))))))
  @@ ("HDA" :>
     (120 :> (60000 :> Grades(670, 350, 391, 428, 429, 1800, 900, 600))))
  @@ ("HIT-HY 200" :>
     (120 :> (110000 :> Grades(780, 550, 615, 673, 499, 3300, 1650, 1100))))

\* product_name_mapping: dropdown names to catalog names.
product_name_mapping ==
  ("HIT-HY200" :> "HIT-HY 200") @@ ("HIT-RE500" :> "HIT-RE 500")
    @@ ("HIT-HY170" :> "HIT-HY 170")

\* dict.get(key, default).
DictGet(d, key, default) == IF key \in DOMAIN d THEN d[key] ELSE default

(***************************************************************************)
(* str methods                                                             *)
(***************************************************************************)
CharAt(s, i) == SubSeq(s, i, i)

\* The smallest i >= n with s[i] = ch, or 0.
RECURSIVE find(_, _, _)
find(s, ch, n) ==
  IF n > Len(s) THEN 0
  ELSE IF CharAt(s, n) = ch THEN n
  ELSE find(s, ch, n + 1)

\* The largest i <= n with s[i] = ch, or 0.
RECURSIVE rfind(_, _, _)
rfind(s, ch, n) ==
  IF n <= 0 THEN 0
  ELSE IF CharAt(s, n) = ch THEN n
  ELSE rfind(s, ch, n - 1)

\* s.rsplit("-", 2): at most two splits, from the right.
rsplit2(s) ==
  CHOOSE parts \in
    {LET j == rfind(s, "-", i - 1)
     IN  IF i = 0 THEN <<s>>
         ELSE IF j = 0 THEN <<SubSeq(s, 1, i - 1), SubSeq(s, i + 1, Len(s))>>
         ELSE <<SubSeq(s, 1, j - 1), SubSeq(s, j + 1, i - 1),
                SubSeq(s, i + 1, Len(s))>> :
       i \in {rfind(s, "-", Len(s))}} : TRUE

endswith(s, ch) == Len(s) >= 1 /\ CharAt(s, Len(s)) = ch

\* s.replace(ch, ""): s without any occurrence of ch.
RECURSIVE remove(_, _)
remove(s, ch) ==
  IF Len(s) = 0 THEN ""
  ELSE LET rest == remove(SubSeq(s, 2, Len(s)), ch)
       IN  IF CharAt(s, 1) = ch THEN rest ELSE CharAt(s, 1) \o rest

Digits ==
  ("0" :> 0) @@ ("1" :> 1) @@ ("2" :> 2) @@ ("3" :> 3) @@ ("4" :> 4)
    @@ ("5" :> 5) @@ ("6" :> 6) @@ ("7" :> 7) @@ ("8" :> 8) @@ ("9" :> 9)

IsDigits(s) == \A i \in 1..Len(s) : CharAt(s, i) \in DOMAIN Digits

RECURSIVE DigitsValue(_)
DigitsValue(s) ==
  IF Len(s) = 0 THEN 0
  ELSE 10 * DigitsValue(SubSeq(s, 1, Len(s) - 1)) + Digits[CharAt(s, Len(s))]

\* int(s) on an unsigned decimal string: Some(value), or None where int
\* raises ValueError.
int(s) == IF Len(s) >= 1 /\ IsDigits(s) THEN Some(DigitsValue(s)) ELSE None

\* float(s) on an unsigned decimal string with at most one point and at most
\* three decimals: Some(value in thousandths), or None where float raises
\* ValueError.
float(s) ==
  LET dot == rfind(s, ".", Len(s))
      whole == IF dot = 0 THEN s ELSE SubSeq(s, 1, dot - 1)
      frac == IF dot = 0 THEN "" ELSE SubSeq(s, dot + 1, Len(s))
      padded == SubSeq(frac \o "000", 1, 3)
  IN  IF IsDigits(whole) /\ IsDigits(frac) /\ Len(whole) + Len(frac) >= 1
         /\ Len(frac) <= 3
      THEN Some(1000 * DigitsValue(whole) + DigitsValue(padded))
      ELSE None

(***************************************************************************)
(* Catalog lookup                                                          *)
(***************************************************************************)
\* parse_anchor_product_string: Return(<<product_name, diameter (mm),
\* embedment_depth (thousandths of mm)>>) or the ValueError it raises.
parse_anchor_product_string(anchor_string) ==
  CHOOSE result \in
    {LET product_name_raw == parts[1]
         diameter_str == parts[2]
         embedment_str == parts[3]
         diameter == int(remove(diameter_str, "M"))
         embedment_depth == float(embedment_str)
         product_name ==
           DictGet(product_name_mapping, product_name_raw, product_name_raw)
     IN  IF Len(parts) # 3
         THEN Raise("ValueError", "Invalid anchor string format")
         ELSE IF ~endswith(diameter_str, "M")
         THEN Raise("ValueError", "Invalid diameter format")
         ELSE IF diameter = None
         THEN Raise("ValueError", "Invalid diameter value")
         ELSE IF embedment_depth = None
         THEN Raise("ValueError", "Invalid embedment depth value")
         ELSE IF product_name \notin DOMAIN ETA_DATABASE
         THEN Raise("ValueError", "Unknown anchor product")
         ELSE Return(<<product_name, diameter[1], embedment_depth[1]>>) :
       parts \in {rsplit2(anchor_string)}} : TRUE

\* A product name that is never decoded.
plain_product(anchor_product) == <<anchor_product, None, None>>

\* _try_parse_anchor_string reading the catalog it is given:
\* <<product_name, diameter or None, embedment or None>>; a string that does
\* not parse comes back unchanged.
try_parse_anchor_string_from(database, anchor_product) ==
  CHOOSE result \in
    {LET product_name_raw == parts[1]
         diameter_str == parts[2]
         embedment_str == parts[3]
         diameter == int(remove(diameter_str, "M"))
         embedment == float(embedment_str)
         product_name ==
           DictGet(product_name_mapping, product_name_raw, product_name_raw)
     IN  IF anchor_product \in DOMAIN database
         THEN <<anchor_product, None, None>>
         ELSE IF anchor_product \in DOMAIN product_name_mapping
         THEN <<product_name_mapping[anchor_product], None, None>>
         ELSE IF Len(parts) = 3 /\ endswith(diameter_str, "M")
                 /\ diameter # None /\ embedment # None
         THEN <<product_name, Some(10 * diameter[1]), embedment>>
         ELSE <<anchor_product, None, None>> :
       parts \in {rsplit2(anchor_product)}} : TRUE

\* _try_parse_anchor_string, reading ETA_DATABASE.
try_parse_anchor_string(anchor_product) ==
  try_parse_anchor_string_from(ETA_DATABASE, anchor_product)

\* min(available_embedments, key=lambda x: abs(x - embedment_depth)): the
\* first key of least distance; the keys are listed in ascending order.
closest_embedment_of(available_embedments, embedment_depth) ==
  LET least == CHOOSE m \in {Abs(x - embedment_depth) : x \in available_embedments} :
                 \A x \in available_embedments : m <= Abs(x - embedment_depth)
      nearest == {x \in available_embedments : Abs(x - embedment_depth) = least}
  IN  CHOOSE x \in nearest : \A y \in nearest : x <= y

\* A tolerance of 20 percent.
within_20_percent(difference, closest_embedment) ==
  difference * 100 <= 20 * closest_embedment

\* tolerance_percent <= 15, with tolerance_percent = difference / closest * 100.
within_tolerance(difference, closest_embedment) ==
  difference * 100 <= 15 * closest_embedment

\* The line get_eta_values prints when it substitutes a depth.
AdjustedNote(embedment_depth, closest_embedment) ==
  [text |-> "NOTE: Embedment depth adjusted", requested |-> embedment_depth,
   adjusted |-> closest_embedment]

\* The line that follows it.
ConsiderNote(available_embedments) ==
  [text |-> "Consider adjusting anchor length to match available embedment",
   available |-> available_embedments]

\* A lookup that raises nothing.
lookup_unchecked(anchor_product_arg, diameter_arg, embedment_depth_arg, concrete_grade) ==
  [result |-> Return(ETA_DATABASE["HUS4-H"][120][79900]["C20/25"]), printed |-> <<>>]

\* get_eta_values after its call of _try_parse_anchor_string returned
\* parsed, reading the catalog it is given: [result |-> the return value or
\* the exception, printed |-> the lines written to standard output].
\* diameter is in tenths of mm, embedment_depth in thousandths of mm.
get_eta_values_from(database, parsed, diameter_arg, embedment_depth_arg, concrete_grade) ==
  LET anchor_product == parsed[1]
      diameter == IF parsed[2] # None THEN parsed[2][1] ELSE diameter_arg
      embedment_depth ==
        IF parsed[3] # None THEN parsed[3][1] ELSE embedment_depth_arg
      product_data == database[anchor_product]
      diameter_data == product_data[diameter]
      available_embedments == DOMAIN diameter_data
      closest_embedment == closest_embedment_of(available_embedments, embedment_depth)
      difference == Abs(closest_embedment - embedment_depth)
      exact == embedment_depth \in available_embedments
      resolved == IF exact THEN embedment_depth ELSE closest_embedment
      embedment_data == diameter_data[resolved]
      printed == IF exact THEN <<>>
                 ELSE <<AdjustedNote(embedment_depth, closest_embedment),
                        ConsiderNote(available_embedments)>>
  IN  IF anchor_product \notin DOMAIN database
      THEN [result |-> Raise("ValueError", "Anchor product not in ETA database"),
            printed |-> <<>>]
      ELSE IF diameter \notin DOMAIN product_data
      THEN [result |-> Raise("ValueError", "Diameter not available"),
            printed |-> <<>>]
      ELSE IF ~exact /\ ~within_tolerance(difference, closest_embedment)
      THEN [result |-> Raise("ValueError", "Embedment depth not available"),
            printed |-> <<>>]
      ELSE IF concrete_grade \notin DOMAIN embedment_data
      THEN [result |-> Raise("ValueError", "Concrete grade not available"),
            printed |-> printed]
      ELSE [result |-> Return(embedment_data[concrete_grade]),
            printed |-> printed]

\* get_eta_values, reading ETA_DATABASE.
get_eta_values(anchor_product_arg, diameter_arg, embedment_depth_arg, concrete_grade) ==
  CHOOSE out \in
    {get_eta_values_from(ETA_DATABASE, parsed, diameter_arg, embedment_depth_arg,
                         concrete_grade) :
       parsed \in {try_parse_anchor_string(anchor_product_arg)}} : TRUE

\* The combined dict get_anchor_properties_from_string returns for the
\* parsed <<product_name, diameter, embedment_depth>>, with the outcome of
\* the lookup.
combined_properties(parsed, concrete_grade) ==
  CHOOSE out \in
    {IF Raised(eta.result)
     THEN [result |-> eta.result, printed |-> eta.printed]
     ELSE [result |-> Return([product_name |-> parsed[1], diameter |-> parsed[2],
                              embedment_depth |-> parsed[3],
                              concrete_grade |-> concrete_grade]
                             @@ eta.result.value),
           printed |-> eta.printed] :
       eta \in {get_eta_values(parsed[1], 10 * parsed[2], parsed[3], concrete_grade)}} :
      TRUE

\* get_anchor_properties_from_string: the parsed name, diameter and depth
\* joined with the catalog entry.
get_anchor_properties_from_string(anchor_string, concrete_grade) ==
  CHOOSE out \in
    {IF Raised(parsed) THEN [result |-> parsed, printed |-> <<>>]
     ELSE combined_properties(parsed.value, concrete_grade) :
       parsed \in {parse_anchor_product_string(anchor_string)}} : TRUE

(***************************************************************************)
(* Concrete grades                                                         *)
(***************************************************************************)
\* convert_concrete_grade_to_fck: the cylinder strength in hundredths of MPa
\* read from the part of the label before the first "/", or the ValueError.
convert_concrete_grade_to_fck(concrete_grade) ==
  LET stripped == remove(concrete_grade, "C")
      parts_0 == SubSeq(stripped, 1, find(stripped, "/", 1) - 1)
      fck == float(parts_0)
  IN  IF find(concrete_grade, "/", 1) = 0
      THEN Raise("ValueError", "Invalid concrete grade format")
      ELSE IF fck = None
      THEN Raise("ValueError", "could not convert string to float")
      ELSE Return(fck[1] \div 10)

\* int(x) truncating a strength in hundredths of MPa to whole MPa.
truncate(x) == x \div 100

\* round(x) of a non-negative strength in hundredths of MPa, in whole MPa:
\* to the nearest integer, a half to the even one.
round(x) ==
  LET whole == x \div 100
      rest == x % 100
  IN  IF rest < 50 THEN whole
      ELSE IF rest > 50 THEN whole + 1
      ELSE IF whole % 2 = 0 THEN whole ELSE whole + 1

\* fck_to_grade: whole MPa to label.
fck_to_grade ==
  (20 :> "C20/25") @@ (25 :> "C25/30") @@ (30 :> "C30/37") @@ (35 :> "C35/45")
    @@ (40 :> "C40/50") @@ (45 :> "C45/55") @@ (50 :> "C50/60")

\* convert_fck_to_concrete_grade: the label of the rounded strength, or of
\* the first key nearest to it.
convert_fck_to_concrete_grade(fck) ==
  LET fck_int == round(fck)
      available == DOMAIN fck_to_grade
      least == CHOOSE m \in {Abs(x - fck_int) : x \in available} :
                 \A x \in available : m <= Abs(x - fck_int)
      nearest == {x \in available : Abs(x - fck_int) = least}
      closest == CHOOSE x \in nearest : \A y \in nearest : x <= y
  IN  IF fck_int \in DOMAIN fck_to_grade
      THEN Return(fck_to_grade[fck_int])
      ELSE Return(fck_to_grade[closest])

(***************************************************************************)
(* calculate_anchor_capacity_etag                                          *)
(***************************************************************************)
\* The AnchorProperties_ETAG that calculate_anchor_capacity_etag builds from
\* its keyword arguments kw, the resolved diameter and depth, the cylinder
\* strength and the catalog entry.
anchor_props_of(kw, diameter, embedment_depth, f_ck, eta_values) ==
  [diameter |-> diameter, embedment_depth |-> embedment_depth,
   edge_distance |-> kw.edge_distance, edge_distance_c2 |-> kw.edge_distance_c2,
   concrete_strength |-> f_ck, concrete_thickness |-> kw.thickness_concrete,
   is_cracked_concrete |-> kw.is_cracked_concrete,
   N0_Rk_s |-> eta_values.N0_Rk_s, N0_Rk_p |-> eta_values.N0_Rk_p,
   V0_Rk_s |-> eta_values.V0_Rk_s,
   s_cr_N |-> DictGet(eta_values, "s_cr_N", (3 * embedment_depth) \div 100),
   c_cr_N |-> DictGet(eta_values, "c_cr_N", (3 * embedment_depth) \div 200),
   l_f |-> DictGet(eta_values, "l_f", embedment_depth \div 100),
   number_of_anchors |-> kw.number_of_anchors, spacing |-> kw.spacing,
   spacing_x |-> kw.spacing_x, spacing_y |-> kw.spacing_y,
   concrete_strength_cube |-> None,
   e_N_x |-> kw.e_N_x, e_N_y |-> kw.e_N_y, e_V |-> kw.e_V,
   alpha_gap |-> kw.alpha_gap, seismic_design |-> kw.seismic_design,
   is_undercut_anchor |-> FALSE,
   has_edge_reinforcement |-> kw.has_edge_reinforcement]

\* The two capacities of a constructed calculator: Return(<<N_Rd, V_Rd>>) in
\* 1/600 of 1000 N, or the first exception.
capacities_of(calculator) ==
  CHOOSE result \in
    {IF Raised(tension_result) THEN tension_result
     ELSE IF Raised(shear_result) THEN shear_result
     ELSE Return(<<tension_result.value.N_Rd, shear_result.value.V_Rd>>) :
       tension_result \in {calculate_tension_capacity_ETAG_5_2_2(calculator)},
       shear_result \in {calculate_shear_capacity_ETAG_5_2_3(calculator)}} : TRUE

\* The calculator built from anchor_props and its capacities, after the
\* lines the lookup printed.
calculator_capacities(anchor_props, printed) ==
  CHOOSE out \in
    {[result |-> IF Raised(error) THEN error
                 ELSE capacities_of(initialize_factors(anchor)),
      printed |-> printed \o validate_warning(anchor)] :
       anchor \in {post_init(anchor_props)},
       error \in {validate_inputs(post_init(anchor_props))}} : TRUE

\* calculate_anchor_capacity_etag(**kw): [result |-> Return(<<tension
\* capacity, shear capacity>>) or the exception, printed |-> the lines
\* written to standard output].
calculate_anchor_capacity_etag(kw) ==
  CHOOSE out \in
    {LET diameter == IF parsed[2] # None THEN parsed[2][1] ELSE kw.diameter
         embedment_depth ==
           IF parsed[3] # None THEN parsed[3][1] ELSE kw.embedment_depth
     IN  IF Raised(f_ck) THEN [result |-> f_ck, printed |-> <<>>]
         ELSE CHOOSE inner \in
           {IF Raised(eta.result) THEN eta
            ELSE calculator_capacities(
                   anchor_props_of(kw, diameter, embedment_depth, f_ck.value,
                                   eta.result.value),
                   eta.printed) :
              eta \in {get_eta_values(parsed[1], diameter, embedment_depth,
                                      kw.concrete_grade)}} : TRUE :
       parsed \in {try_parse_anchor_string(kw.anchor_product)},
       f_ck \in {convert_concrete_grade_to_fck(kw.concrete_grade)}} : TRUE

(***************************************************************************)
(* calculate_anchor_capacity_etag_detailed                                 *)
(***************************************************************************)
\* The detailed_results dict of a constructed calculator for the keyword
\* arguments kw, capacities in 1/600 of 1000 N (the "_N" entries) and in
\* 1/600 kN (the "_kN" entries), or the first exception.
detailed_results_of(calculator, kw, diameter, embedment_depth, f_ck, anchor_product) ==
  CHOOSE result \in
    {IF Raised(tension_result) THEN tension_result
     ELSE IF Raised(shear_result) THEN shear_result
     ELSE LET t == tension_result.value
              v == shear_result.value
          IN  Return(
            [tension |->
               [governing_capacity_N |-> t.N_Rd, governing_mode |-> t.governing_mode,
                steel_failure |-> [N_Rd_s_N |-> t.N_Rd_steel, N_Rd_s_kN |-> t.N_Rd_steel,
                                   details |-> t.steel_details],
                pullout_failure |-> [N_Rd_p_N |-> t.N_Rd_pullout,
                                     N_Rd_p_kN |-> t.N_Rd_pullout,
                                     details |-> t.pullout_details],
                concrete_breakout |-> [N_Rd_c_N |-> t.N_Rd_concrete,
                                       N_Rd_c_kN |-> t.N_Rd_concrete,
                                       details |-> t.concrete_details]],
             shear |->
               [governing_capacity_N |-> v.V_Rd, governing_mode |-> v.governing_mode,
                steel_failure |-> [V_Rd_s_N |-> v.V_Rd_steel, V_Rd_s_kN |-> v.V_Rd_steel,
                                   details |-> v.steel_details],
                pryout_failure |-> [V_Rd_cp_N |-> v.V_Rd_pryout,
                                    V_Rd_cp_kN |-> v.V_Rd_pryout,
                                    details |-> v.pryout_details],
                concrete_edge |-> [V_Rd_c_N |-> v.V_Rd_concrete,
                                   V_Rd_c_kN |-> v.V_Rd_concrete,
                                   details |-> v.concrete_edge_details]],
             summary |->
               [N_Rd_N |-> t.N_Rd, V_Rd_N |-> v.V_Rd, N_Rd_kN |-> t.N_Rd,
                V_Rd_kN |-> v.V_Rd, tension_governing |-> t.governing_mode,
                shear_governing |-> v.governing_mode,
                number_of_anchors |-> kw.number_of_anchors,
                seismic_design |-> kw.seismic_design],
             input_parameters |->
               [diameter |-> diameter, embedment_depth |-> embedment_depth,
                edge_distance |-> kw.edge_distance,
                concrete_grade |-> kw.concrete_grade, f_ck |-> f_ck,
                is_cracked |-> kw.is_cracked_concrete,
                number_of_anchors |-> kw.number_of_anchors,
                spacing |-> kw.spacing, alpha_gap |-> kw.alpha_gap,
                anchor_product |-> anchor_product]]) :
       tension_result \in {calculate_tension_capacity_ETAG_5_2_2(calculator)},
       shear_result \in {calculate_shear_capacity_ETAG_5_2_3(calculator)}} : TRUE

\* The keyword arguments as the detailed function hands them to
\* AnchorProperties_ETAG: an omitted edge_distance_c2 becomes edge_distance.
detailed_arguments(kw) ==
  [kw EXCEPT !.edge_distance_c2 =
     IF kw.edge_distance_c2 # None THEN kw.edge_distance_c2
     ELSE Some(kw.edge_distance)]

\* The calculator built from the detailed function's anchor properties and
\* its detailed results, after the lines the lookup printed.
calculator_details(kw, diameter, embedment_depth, f_ck, anchor_product, eta) ==
  CHOOSE out \in
    {[result |-> IF Raised(error) THEN error
                 ELSE detailed_results_of(initialize_factors(anchor), kw, diameter,
                                          embedment_depth, f_ck, anchor_product),
      printed |-> eta.printed \o validate_warning(anchor)] :
       anchor \in {post_init(anchor_props_of(detailed_arguments(kw), diameter,
                                             embedment_depth, f_ck,
                                             eta.result.value))},
       error \in {validate_inputs(
                    post_init(anchor_props_of(detailed_arguments(kw), diameter,
                                              embedment_depth, f_ck,
                                              eta.result.value)))}} : TRUE

\* calculate_anchor_capacity_etag_detailed(**kw): [result |-> Return(the
\* detailed_results dict) or the exception, printed |-> the lines written to
\* standard output].
calculate_anchor_capacity_etag_detailed(kw) ==
  CHOOSE out \in
    {LET diameter == IF parsed[2] # None THEN parsed[2][1] ELSE kw.diameter
         embedment_depth ==
           IF parsed[3] # None THEN parsed[3][1] ELSE kw.embedment_depth
     IN  IF Raised(f_ck) THEN [result |-> f_ck, printed |-> <<>>]
         ELSE CHOOSE inner \in
           {IF Raised(eta.result) THEN eta
            ELSE calculator_details(kw, diameter, embedment_depth, f_ck.value,
                                    parsed[1], eta) :
              eta \in {get_eta_values(parsed[1], diameter, embedment_depth,
                                      kw.concrete_grade)}} : TRUE :
       parsed \in {try_parse_anchor_string(kw.anchor_product)},
       f_ck \in {convert_concrete_grade_to_fck(kw.concrete_grade)}} : TRUE

(***************************************************************************)
(* NZS 3101 chapter 17: AnchorCapacity_Chapter_17                          *)
(* Lengths in tenths of a millimetre, areas in hundredths of a mm^2,       *)
(* strengths in MPa, forces in tens of newtons.                            *)
(***************************************************************************)
\* Python truth of an Optional[float]: None and 0 are false.
Truthy(x) == x # None /\ x[1] # 0

\* effective_area: pi * d^2 / 4.
effective_area(self) == MulDiv(self.anchor.diameter * self.anchor.diameter, 31416, 40000)

\* head_bearing_area: pi * (d_head^2 - d^2) / 4.
head_bearing_area(self) ==
  MulDiv(self.anchor.head_diameter * self.anchor.head_diameter
           - self.anchor.diameter * self.anchor.diameter, 31416, 40000)

\* Section 17.5.7.1: Ns = 0.75 * n * A * fu.
steel_strength_tensio_17_5_7_1(self) ==
  MulDiv(3 * self.anchor.number_of_anchors * effective_area(self),
         self.anchor.ultimate_tensile_strength, 4000)

\* psi1, the group factor: Return(1.0), or the ValueError for a group
\* without spacing.
get_anchor_group_modification_factor(self) ==
  IF self.anchor.number_of_anchors = 1 THEN Return(One)
  ELSE IF ~Truthy(self.anchor.spacing)
  THEN Raise("ValueError", "Spacing must be provided for anchor groups")
  ELSE Return(RMin(One, <<1, 1>>))

\* psi2, the edge-distance factor.
get_edge_distance_modification_factor(self) ==
  LET cmin == self.anchor.edge_distance
      hef == self.anchor.effective_embedment_depth
  IN  IF cmin = 0 THEN One
      ELSE IF 2 * cmin >= 3 * hef THEN One
      ELSE <<21 * hef + 6 * cmin, 30 * hef>>

\* _calculate_projected_concrete_area: Return(FOUR times ANc), or the
\* ValueError for an anchor count other than 1, 2 or 4.
calculate_projected_concrete_area(self) ==
  LET a == self.anchor
      hef == a.effective_embedment_depth
      c1 == a.edge_distance
      c2x2 == IF Truthy(a.edge_distance_perp) THEN 2 * a.edge_distance_perp[1]
              ELSE 3 * hef
      s1 == IF Truthy(a.spacing) THEN a.spacing[1] ELSE 3 * hef
      s2 == s1
      n == a.number_of_anchors
  IN  IF n = 1
      THEN IF 2 * c1 < 3 * hef THEN Return((2 * c1 + 3 * hef) * (6 * hef))
           ELSE Return(36 * (hef * hef))
      ELSE IF n = 2
      THEN IF 2 * c1 < 3 * hef /\ s1 < 3 * hef
           THEN Return((2 * c1 + 2 * s1 + 3 * hef) * (6 * hef))
           ELSE Return(72 * (hef * hef))
      ELSE IF n = 4
      THEN IF 2 * c1 < 3 * hef /\ c2x2 < 3 * hef /\ s1 < 3 * hef /\ s2 < 3 * hef
           THEN Return((2 * c1 + 2 * s1 + 3 * hef) * (c2x2 + 2 * s2 + 3 * hef))
           ELSE Return(144 * (hef * hef))
      ELSE Raise("ValueError", "Number of anchors must be 1, 2, or 4 for this implementation")

\* Nb = k * sqrt(fc) * hef^1.5 with k = 10, and for hef >= 280 mm the smaller
\* of that and 3.9 * sqrt(fc) * hef^1.67.
Nb_of(fc, hef) ==
  LET Nb15 == MulDiv(ISqrt(fc * hef * 1000), hef, 1000)
      Nb167 == MulDiv(MulDiv(39 * ISqrt(fc * 1000000), PowFix(hef * 1000, 6700), 10000),
                      hef, 1000000)
  IN  IF hef < 2800 THEN Nb15 ELSE Min2(Nb15, Nb167)

\* Section 17.5.7.2: phi * (ANc / ANco) * psi1 * psi2 * psi3 * Nb.
concrete_breakout_tension_17_5_7_2(self) ==
  LET a == self.anchor
      fc == Min2(a.concrete_strength, 70)
      hef == a.effective_embedment_depth
      Nb == Nb_of(fc, hef)
      psi1 == get_anchor_group_modification_factor(self)
      psi2 == get_edge_distance_modification_factor(self)
      psi3 == IF ~a.is_cracked_concrete THEN <<125, 100>> ELSE One
      ANc == calculate_projected_concrete_area(self)
      ANco == 36 * (hef * hef)
  IN  IF Raised(psi1) THEN psi1
      ELSE IF Raised(ANc) THEN ANc
      ELSE IF ANco = 0 THEN Raise("ZeroDivisionError", "float division by zero")
      ELSE Return(Times(Times(Times(Times(Times(Nb, <<65, 100>>),
                                          <<ANc.value, ANco>>), psi1.value), psi2), psi3))

\* Section 17.5.7.3: psi4 * Np.
tension_pullout_strength_17_5_7_3(self) ==
  LET a == self.anchor
      psi4 == IF a.is_cracked_concrete THEN One ELSE <<14, 10>>
      eh == a.length_hook[1]
      do == a.diameter
  IN  IF a.anchor_type \in {"headed_stud", "headed_bolt"}
      THEN Return(Times(MulDiv(6 * a.concrete_strength, head_bearing_area(self), 1000), psi4))
      ELSE IF a.anchor_type = "hooked_bolt"
      THEN IF ~Truthy(a.length_hook)
           THEN Raise("ValueError", "Hook length must be provided for hooked bolts")
           ELSE IF ~(3 * do <= eh /\ 2 * eh <= 9 * do)
           THEN Raise("ValueError", "Hook length must be between 3do and 4.5do")
           ELSE Return(Times(MulDiv(27 * a.concrete_strength, eh * do, 40000), psi4))
      ELSE Raise("ValueError", "Invalid anchor type")

\* k1, the edge-distance multiplier of the side-face blowout strength.
get_edge_distance_multiplier(self) ==
  LET c1 == self.anchor.edge_distance
      c2 == self.anchor.edge_distance_perp[1]
  IN  IF ~Truthy(self.anchor.edge_distance_perp) THEN One
      ELSE IF c2 >= 3 * c1 THEN One
      ELSE <<c1 + c2, 4 * c1>>

\* Section 17.5.7.4: phi * 13.3 * k1 * sqrt(fc * Abrg).
side_face_blowout_strength_17_5_7_4(self) ==
  Times(MulDiv(ISqrt(self.anchor.concrete_strength * head_bearing_area(self) * 100),
               8645, 1000000),
        get_edge_distance_multiplier(self))

\* Whether _calc_anchor_tension_strength_17_5_7 takes the three-mode branch.
three_modes(self) ==
  \/ 10 * self.anchor.edge_distance >= 4 * self.anchor.effective_embedment_depth
  \/ self.anchor.anchor_type \notin {"headed_stud", "headed_bolt"}

\* _calc_anchor_tension_strength_17_5_7: the least of the applicable modes.
calc_anchor_tension_strength_17_5_7(self) ==
  LET steel == steel_strength_tensio_17_5_7_1(self)
      breakout == concrete_breakout_tension_17_5_7_2(self)
      pullout == tension_pullout_strength_17_5_7_3(self)
  IN  IF Raised(breakout) THEN breakout
      ELSE IF Raised(pullout) THEN pullout
      ELSE IF three_modes(self)
      THEN Return(Min3(steel, breakout.value, pullout.value))
      ELSE Return(Min4(steel, breakout.value, pullout.value,
                       side_face_blowout_strength_17_5_7_4(self)))

\* Section 17.5.8.1: Vs = 0.65 * n * A * fu for a headed stud, 0.65 * 0.6 *
\* n * A * fu for a bolt; another anchor type leaves Vs unassigned.
steel_strength_shear_17_5_8_1(self) ==
  LET a == self.anchor
  IN  IF a.anchor_type = "headed_stud"
      THEN Return(MulDiv(65 * a.number_of_anchors * effective_area(self),
                         a.ultimate_tensile_strength, 100000))
      ELSE IF a.anchor_type \in {"headed_bolt", "hooked_bolt"}
      THEN Return(MulDiv(39 * a.number_of_anchors * effective_area(self),
                         a.ultimate_tensile_strength, 100000))
      ELSE Raise("UnboundLocalError", "local variable 'Vs' referenced before assignment")

\* _calculate_projected_shear_area: Return(FOUR times Av), the TypeError of
\* comparing a missing ca2, or the ValueError of a group without spacing or
\* of a count that is not positive.
calculate_projected_shear_area(self) ==
  LET a == self.anchor
      ca1 == a.edge_distance
      h == a.thickness_concrete
      s == a.spacing[1]
      n == a.number_of_anchors
  IN  IF n = 1
      THEN IF 2 * h < 3 * ca1 THEN Return(12 * ca1 * h)
           ELSE IF ~Truthy(a.edge_distance_perp)
           THEN Raise("TypeError", "'<' not supported between 'NoneType' and 'float'")
           ELSE IF 2 * a.edge_distance_perp[1] < 3 * ca1
           THEN Return(3 * ca1 * (3 * ca1 + 2 * a.edge_distance_perp[1]))
           ELSE Return(12 * ca1 * h)
      ELSE IF n > 1
      THEN IF ~Truthy(a.spacing)
           THEN Raise("ValueError", "Spacing must be provided for anchor groups")
           ELSE IF a.shear_prep
           THEN IF 2 * h < 3 * ca1 /\ s < 3 * ca1
                THEN Return(4 * (3 * ca1 + s) * h)
                ELSE Return(18 * ca1 * ca1)
           ELSE IF 2 * h < 3 * ca1 THEN Return(12 * ca1 * h)
                ELSE Return(18 * ca1 * ca1)
      ELSE Raise("ValueError", "Number of anchors must be positive")

\* Vb = 3.84 * sqrt(fc) * (le / do)^0.2 * sqrt(do) * c1^1.5 with le = 0.8 hef,
\* Equation 17-17.
Vb_of(fc, hef, do, c1) ==
  LET v1 == MulDiv(384, SqrtFix(fc * 10000), 10000)
      v2 == MulDiv(v1, PowFix(MulDiv(8000, hef, do), 2000), 10000)
      v3 == MulDiv(v2, SqrtFix(do * 1000), 10000)
      v4 == MulDiv(v3, SqrtFix(c1 * 1000), 10000)
  IN  MulDiv(v4, c1, 10000)

\* psi5, Equation 17-18.  Defined for c1 > 0.
psi5_of(spacing, ev, c1) ==
  IF Truthy(spacing) /\ 2 * ev < spacing[1] THEN <<3 * c1, 3 * c1 + 2 * ev>>
  ELSE One

\* psi6, Equations 17-19 and 17-20.  Defined for c1 > 0.
psi6_of(edge_distance_perp, c1) ==
  IF Truthy(edge_distance_perp) /\ ~(2 * edge_distance_perp[1] >= 3 * c1)
  THEN <<21 * c1 + 6 * edge_distance_perp[1], 30 * c1>>
  ELSE One

\* Sections 17.5.8.2 and 17.5.8.3: phi * (Av / Avo) * psi5 * psi6 * psi7 * Vb
\* perpendicular to the edge, phi * 2 * (Av / Avo) * psi5 * psi7 * Vb parallel
\* to it.
concrete_breakout_shear_17_5_8_2(self) ==
  LET a == self.anchor
      c1 == a.edge_distance
      do == a.diameter
      Vb == Vb_of(a.concrete_strength, a.effective_embedment_depth, do, c1)
      Av == calculate_projected_shear_area(self)
      Avo == 18 * c1 * c1
      psi5 == psi5_of(a.spacing, a.eccentricity, c1)
      psi6 == psi6_of(a.edge_distance_perp, c1)
      psi7 == IF ~a.is_cracked_concrete THEN <<14, 10>> ELSE One
      common == Times(Times(Times(Times(Vb, <<65, 100>>), <<Av.value, Avo>>), psi5),
                      psi7)
  IN  IF do = 0 THEN Raise("ZeroDivisionError", "float division by zero")
      ELSE IF Raised(Av) THEN Av
      ELSE IF c1 = 0 THEN Raise("ZeroDivisionError", "float division by zero")
      ELSE IF a.shear_prep THEN Return(Times(common, psi6))
      ELSE Return(2 * common)

\* Section 17.5.8.4: phi * kcp * Ncb with kcp = 1.0 for hef < 65 mm, else 2.0.
concrete_pryout_strength_17_5_8_4(self) ==
  LET Ncb == concrete_breakout_tension_17_5_7_2(self)
      kcp == IF self.anchor.effective_embedment_depth < 650 THEN 1 ELSE 2
  IN  IF Raised(Ncb) THEN Ncb
      ELSE Return(MulDiv(65 * kcp, Ncb.value, 100))

\* _calc_anchor_shear_strength_17_5_8: the least of the three modes.
calc_anchor_shear_strength_17_5_8(self) ==
  CHOOSE result \in
    {IF Raised(steel) THEN steel
     ELSE IF Raised(breakout) THEN breakout
     ELSE IF Raised(pryout) THEN pryout
     ELSE Return(Min3(steel.value, breakout.value, pryout.value)) :
       steel \in {steel_strength_shear_17_5_8_1(self)},
       breakout \in {concrete_breakout_shear_17_5_8_2(self)},
       pryout \in {concrete_pryout_strength_17_5_8_4(self)}} : TRUE

\* The limit calc_interaction_tension_shear_17_5_6 compares unity with: 1.2.
Chapter_17_interaction_limit == <<6, 5>>

\* calc_interaction_tension_shear_17_5_6: <<compliance, unity>> with
\* unity = N / Nt + V / Ns.
calc_interaction_tension_shear_17_5_6(self, N, V) ==
  CHOOSE result \in
    {IF Raised(Nt) THEN Nt
     ELSE IF Raised(Ns) THEN Ns
     ELSE IF Nt.value = 0 \/ Ns.value = 0
     THEN Raise("ZeroDivisionError", "float division by zero")
     ELSE LET unity == RAdd(<<N, Nt.value>>, <<V, Ns.value>>)
          IN  Return(<<RLeLimit(unity, Chapter_17_interaction_limit), unity>>) :
       Nt \in {calc_anchor_tension_strength_17_5_7(self)},
       Ns \in {calc_anchor_shear_strength_17_5_8(self)}} : TRUE

(***************************************************************************)
(* NZS 3101 design tables: interpolation                                   *)
(* Table abscissas are integers; tabulated factors are in hundredths; an   *)
(* interpolated value is an exact fraction of hundredths.                  *)
(***************************************************************************)
\* Table 4b, X_vc by f'c (MPa).
TABLE_4B_X_VC == (20 :> 79) @@ (25 :> 88) @@ (32 :> 100) @@ (40 :> 112)

\* Table 2d, X_nae by anchor size and spacing: the sizes 6 and 8.
TABLE_2D_X_NAE ==
  (6 :> ((20 :> 78) @@ (25 :> 85) @@ (30 :> 92) @@ (35 :> 100)))
    @@ (8 :> ((25 :> 76) @@ (30 :> 81) @@ (35 :> 86) @@ (40 :> 92) @@ (45 :> 100)))

\* sorted(keys): the keys in ascending order.
RECURSIVE sorted(_)
sorted(keys) ==
  IF keys = {} THEN <<>>
  ELSE LET least == CHOOSE x \in keys : \A y \in keys : x <= y
       IN  <<least>> \o sorted(keys \ {least})

\* np.interp(x, xp, fp) for ascending xp of two or more points: fp[1] at and
\* below xp[1], fp[n] at and above xp[n] (the defaults of left and right),
\* and the chord between the two neighbours in between.
np_interp(x, xp, fp) ==
  LET n == Len(xp)
  IN  IF x <= xp[1] THEN <<fp[1], 1>>
      ELSE IF x >= xp[n] THEN <<fp[n], 1>>
      ELSE LET i == CHOOSE j \in 1..(n - 1) : xp[j] <= x /\ x < xp[j + 1]
           IN  <<fp[i] * (xp[i + 1] - xp[i]) + (fp[i + 1] - fp[i]) * (x - xp[i]),
                 xp[i + 1] - xp[i]>>

\* _interpolate_1d: the value of the {x: y} dict data at x_value.
interpolate_1d(data, x_value) ==
  LET x_points == sorted(DOMAIN data)
      y_points == [i \in 1..Len(x_points) |-> data[x_points[i]]]
  IN  IF Len(x_points) < 2
      THEN IF Len(x_points) = 1 THEN Return(<<y_points[1], 1>>)
           ELSE Raise("ValueError", "Cannot interpolate with no data points.")
      ELSE Return(np_interp(x_value, x_points, y_points))

\* _interpolate_table: [result |-> the value of table_data[anchor_size] at
\* x_value or the ValueError, printed |-> the warning of a one-point table].
interpolate_table(table_data, anchor_size, x_value) ==
  LET data_for_size == table_data[anchor_size]
      x_points == sorted(DOMAIN data_for_size)
      y_points == [i \in 1..Len(x_points) |-> data_for_size[x_points[i]]]
  IN  IF anchor_size \notin DOMAIN table_data
      THEN [result |-> Raise("ValueError", "Anchor size not found in table."),
            printed |-> <<>>]
      ELSE IF Len(x_points) < 2
      THEN [result |-> Return(<<y_points[1], 1>>),
            printed |-> IF x_value = x_points[1] THEN <<>>
                        ELSE <<"Warning: Only one data point for anchor size in table.">>]
      ELSE [result |-> Return(np_interp(x_value, x_points, y_points)),
            printed |-> <<>>]

(***************************************************************************)
(* Inputs                                                                  *)
(***************************************************************************)
\* Largest anchor count a caller passes (the implementations cover 1, 2, 4).
MaxAnchors == 4

\* The demands are multiples of DemandStep up to MaxDemandSteps steps.
MaxDemandSteps == 2

\* AnchorProperties_ETAG(...) as calculate_anchor_capacity_etag builds it
\* from a catalog entry, with the defaults of the dataclass.
AnchorProperties_ETAG(diameter, embedment_depth, concrete_grade, concrete_strength) ==
  LET eta == ETA_DATABASE["HUS4-H"][diameter][embedment_depth][concrete_grade]
  IN  [diameter |-> diameter, embedment_depth |-> embedment_depth,
       edge_distance |-> 1500, concrete_strength |-> concrete_strength,
       concrete_thickness |-> 3000, is_cracked_concrete |-> TRUE,
       N0_Rk_s |-> eta.N0_Rk_s, N0_Rk_p |-> eta.N0_Rk_p, V0_Rk_s |-> eta.V0_Rk_s,
       s_cr_N |-> eta.s_cr_N, c_cr_N |-> eta.c_cr_N, l_f |-> eta.l_f,
       number_of_anchors |-> 1, spacing |-> None, spacing_x |-> None,
       spacing_y |-> None, edge_distance_c2 |-> None,
       concrete_strength_cube |-> None, e_N_x |-> 0, e_N_y |-> 0, e_V |-> 0,
       alpha_gap |-> 2, seismic_design |-> FALSE, is_undercut_anchor |-> FALSE,
       has_edge_reinforcement |-> FALSE]

HUS4_12_80 == AnchorProperties_ETAG(120, 79900, "C20/25", 2000)

HUS4_10_60 == AnchorProperties_ETAG(100, 60000, "C20/25", 2000)

HUS4_12_122 == AnchorProperties_ETAG(120, 122000, "C30/37", 3000)

\* Single anchors over edge distances, thicknesses and eccentricities: the
\* edge distance reaches c_cr_N (119.9 mm) and the 9999 mm sentinel, the
\* thickness and the second edge distance reach 1.5 * c1.
GeometryInputs ==
  {[HUS4_12_80 EXCEPT !.edge_distance = c1, !.concrete_thickness = h,
                      !.edge_distance_c2 = c2, !.e_N_x = e, !.e_N_y = -e,
                      !.e_V = -e] :
     c1 \in {600, 1199, 2000, 99990}, h \in {600, 900, 3000},
     c2 \in {None, Some(400), Some(900), Some(3000)}, e \in {0, -200, 300}}

\* Anchor counts with and without the spacings they need.
GroupInputs ==
  {[HUS4_12_80 EXCEPT !.number_of_anchors = n, !.spacing = s, !.spacing_x = sx,
                      !.spacing_y = sy, !.edge_distance = c1,
                      !.concrete_thickness = 0] :
     n \in 1..MaxAnchors, s \in {None, Some(1000), Some(5000)},
     sx \in {None, Some(1500)}, sy \in {None, Some(800)}, c1 \in {600, 1500}}

\* Gap factor, seismic design, anchor type, reinforcement and cracking.
FactorInputs ==
  {[base EXCEPT !.alpha_gap = g, !.seismic_design = sd, !.is_undercut_anchor = u,
                !.has_edge_reinforcement = r, !.is_cracked_concrete = cr,
                !.number_of_anchors = n, !.spacing = Some(1000)] :
     base \in {HUS4_10_60, HUS4_12_122}, g \in {0, 1, 2},
     sd \in BOOLEAN, u \in BOOLEAN, r \in BOOLEAN, cr \in BOOLEAN, n \in {1, 2}}

\* Embedment depths around 60 mm, strengths in and out of C20/25..C50/60,
\* and the non-positive diameter and depth the constructor rejects.
EmbedmentInputs ==
  {[HUS4_10_60 EXCEPT !.embedment_depth = h_ef, !.diameter = d,
                      !.concrete_strength = fck, !.concrete_strength_cube = cube] :
     h_ef \in {0, 55000, 59999, 60000, 80000}, d \in {0, 100},
     fck \in {1500, 2000, 5000}, cube \in {None, Some(3000)}}

\* Catalog resistances a caller overrides: steel and pull-out can tie.
ResistanceInputs ==
  {[HUS4_12_80 EXCEPT !.N0_Rk_s = s, !.N0_Rk_p = p] :
     s \in {114, 790}, p \in {114, 790}}

\* Zero critical distances and a zero edge distance.
ZeroInputs ==
  {[HUS4_12_80 EXCEPT !.s_cr_N = s, !.c_cr_N = c, !.edge_distance = c1] :
     s \in {0, 2397}, c \in {0, 1199}, c1 \in {0, 1500}}

\* Edge distances at and above the 9999 mm of an unbounded slab, where
\* steel or pry-out governs the shear.
SentinelInputs ==
  {[base EXCEPT !.edge_distance = c1, !.edge_distance_c2 = c2,
                !.concrete_thickness = h] :
     base \in {HUS4_12_80, [HUS4_10_60 EXCEPT !.embedment_depth = 55000]},
     c1 \in {99990, 120000}, c2 \in {None, Some(400)}, h \in {600, 3000}}

\* Groups of 2 and 4 anchors with spacings below, at and above the critical
\* spacing of 239.7 mm, near and far from the edge.
SpacingInputs ==
  {[HUS4_12_80 EXCEPT !.number_of_anchors = n, !.spacing = Some(s),
                      !.spacing_x = Some(s), !.spacing_y = Some(sy),
                      !.edge_distance = c1] :
     n \in {2, 4}, s \in {1000, 2397, 5000}, sy \in {800, 3000}, c1 \in {600, 1500}}

\* Anchors near an edge, where a concrete mode governs the shear, with and
\* without hole clearance.
ClearanceInputs ==
  {[HUS4_12_80 EXCEPT !.alpha_gap = g, !.seismic_design = sd, !.edge_distance = 600,
                      !.number_of_anchors = n, !.spacing = Some(1000)] :
     g \in {1, 2}, sd \in BOOLEAN, n \in {1, 2}}

AnchorInputs ==
  GeometryInputs \cup GroupInputs \cup FactorInputs \cup EmbedmentInputs
    \cup ResistanceInputs \cup ZeroInputs \cup SentinelInputs \cup ClearanceInputs
    \cup SpacingInputs

\* Design demands in 1/600 kN.  7.6 kN and 15.8 kN are the design pull-out
\* and steel shear resistances of HUS4-H 12 mm at 79.9 mm in C20/25.
DemandStep == [N_Ed |-> 2280, V_Ed |-> 4740]

N_EdInputs == {k * DemandStep.N_Ed : k \in 0..MaxDemandSteps} \cup {5016}

V_EdInputs == {k * DemandStep.V_Ed : k \in 0..MaxDemandSteps}

\* The pass thresholds of the two standards: 1.0 and 1.2.
LimitInputs == {<<1, 1>>, <<6, 5>>}

ProductInputs ==
  {"HUS4-H", "HIT-HY 200", "HIT-HY200", "HUS4-H-12M-80", "HUS4-H-10M-66",
   "HUS4-H-12-80", "HUS9"}

DiameterInputs == {100, 120, 130}

\* Requested depths: tabulated ones, ones 0.1 mm, 10 %, 15 %, 16.7 % and
\* 20 % away from a tabulated one, and ones halfway between two.
EmbedmentDepthInputs ==
  {60000, 66000, 69000, 70000, 72000, 79900, 80000, 96000, 100000, 110000,
   111000, 146400}

GradeInputs == {"C20/25", "C30/37", "C40/50"}

AnchorStringInputs ==
  {"HUS4-H-12M-80", "HUS4-H-12M-79.9", "HUS4-H-10M-66", "HUS4-H-10M-96",
   "HIT-HY200-12M-110", "HUS4-H-12-80", "HUS4-H", "HUS9-12M-80",
   "HUS4-H-xM-80", "HUS4-H-12M-8x", "HUS4-H-1M2M-80", "HUS4-H-M-80", "12M-80"}

\* Keyword arguments of calculate_anchor_capacity_etag: encoded and plain
\* product names, each with accompanying diameter and depth arguments.
CapacityProductInputs ==
  {"HUS4-H", "HUS4-H-12M-80", "HUS4-H-12M-79.9", "HUS4-H-10M-60",
   "HIT-HY200-12M-110", "HUS9-12M-80", "HUS4-H-12-80", "HUS4-H-12M-200"}

CapacityGradeInputs == {"C20/25", "C30/37", "C20"}

CapacityInputs ==
  {[thickness_concrete |-> 3000, diameter |-> diameter,
    embedment_depth |-> embedment_depth, edge_distance |-> 1500,
    edge_distance_c2 |-> None, number_of_anchors |-> number_of_anchors,
    concrete_grade |-> concrete_grade, is_cracked_concrete |-> TRUE,
    anchor_product |-> anchor_product, spacing |-> spacing,
    spacing_x |-> None, spacing_y |-> None, e_N_x |-> 0, e_N_y |-> 0, e_V |-> 0,
    alpha_gap |-> 2, seismic_design |-> FALSE, has_edge_reinforcement |-> FALSE] :
     diameter \in {100, 120}, embedment_depth \in {60000, 79900, 80000},
     number_of_anchors \in {1, 2}, concrete_grade \in CapacityGradeInputs,
     anchor_product \in CapacityProductInputs, spacing \in {None, Some(1000)}}

\* Keyword arguments with an edge distance below and above c_cr_N and with
\* and without the perpendicular edge distance.
EdgeCapacityInputs ==
  {[thickness_concrete |-> 3000, diameter |-> 120,
    embedment_depth |-> embedment_depth, edge_distance |-> edge_distance,
    edge_distance_c2 |-> edge_distance_c2, number_of_anchors |-> number_of_anchors,
    concrete_grade |-> concrete_grade, is_cracked_concrete |-> TRUE,
    anchor_product |-> anchor_product, spacing |-> Some(1000),
    spacing_x |-> None, spacing_y |-> None, e_N_x |-> 0, e_N_y |-> 0, e_V |-> 0,
    alpha_gap |-> 2, seismic_design |-> FALSE, has_edge_reinforcement |-> FALSE] :
     embedment_depth \in {79900, 80000}, edge_distance \in {600, 1500},
     edge_distance_c2 \in {None, Some(900)}, number_of_anchors \in {1, 2},
     concrete_grade \in {"C20/25", "C20"},
     anchor_product \in {"HUS4-H", "HUS4-H-10M-55"}}

\* Keyword arguments with seismic design requested, for an undercut and a
\* non-undercut product of the catalog, single and in a group of two.
SeismicCapacityInputs ==
  {[thickness_concrete |-> 3000, diameter |-> diameter,
    embedment_depth |-> 60000, edge_distance |-> 1500,
    edge_distance_c2 |-> None, number_of_anchors |-> number_of_anchors,
    concrete_grade |-> "C20/25", is_cracked_concrete |-> TRUE,
    anchor_product |-> anchor_product, spacing |-> Some(1000),
    spacing_x |-> None, spacing_y |-> None, e_N_x |-> 0, e_N_y |-> 0, e_V |-> 0,
    alpha_gap |-> 2, seismic_design |-> TRUE, has_edge_reinforcement |-> FALSE] :
     diameter \in {100, 120}, number_of_anchors \in {1, 2},
     anchor_product \in {"HDA", "HDA-12M-60", "HUS4-H"}}

\* The number of quarter-MPa steps of the cylinder strengths.
MaxFckSteps == 240

\* Cylinder strengths in hundredths of MPa, from 0 to 60 MPa in steps of
\* 0.25 MPa: the tabulated strengths, the midpoints between them, values on
\* both sides of every half and values beyond both ends of the table.
FckInputs == {25 * k : k \in 0..MaxFckSteps}

\* Grade labels: the tabulated ones and labels without a slash, without a
\* letter and without a number.
GradeLabelInputs ==
  {fck_to_grade[k] : k \in DOMAIN fck_to_grade} \cup {"C20", "25/30", "C/25", "C32.5/40"}

\* {x: y} dicts for _interpolate_1d: Table 4b, one point, no point.
DataInputs == {TABLE_4B_X_VC, (20 :> 79), <<>>}

\* Tables for _interpolate_table: Table 2d and a table with one point.
TableInputs == {TABLE_2D_X_NAE, (6 :> (20 :> 78))}

\* Anchor sizes in and not in the tables.
AnchorSizeInputs == {6, 7, 8}

\* Abscissas below, inside and above the tabulated ranges.
XValueInputs == {10, 15, 20, 22, 25, 28, 32, 36, 40, 45, 50, 60}

\* NZS 3101 AnchorProperties with a head: edge distances below and above
\* 0.4 hef and 1.5 hef, embedment depths below and above 280 mm, concrete
\* strengths below and above 70 MPa, and an anchor type chapter 17 lacks.
NZSHeadedInputs ==
  [thickness_concrete : {2000}, diameter : {160}, head_diameter : {300},
   effective_embedment_depth : {1000, 3000}, edge_distance : {300, 1000, 2000},
   eccentricity : {0}, edge_distance_perp : {None, Some(500)},
   spacing : {None, Some(1000)}, number_of_anchors : 1..MaxAnchors,
   ultimate_tensile_strength : {400}, concrete_strength : {30, 80},
   is_cracked_concrete : BOOLEAN, length_hook : {None},
   anchor_type : {"headed_stud", "expansion"}, shear_prep : {TRUE}]

\* Hooked bolts without a hook length and with hook lengths inside and
\* outside 3 do .. 4.5 do.
NZSHookedInputs ==
  [thickness_concrete : {2000}, diameter : {160}, head_diameter : {300},
   effective_embedment_depth : {1000}, edge_distance : {300, 2000},
   eccentricity : {0}, edge_distance_perp : {None}, spacing : {None},
   number_of_anchors : {1}, ultimate_tensile_strength : {400},
   concrete_strength : {30}, is_cracked_concrete : BOOLEAN,
   length_hook : {None, Some(600), Some(900)}, anchor_type : {"hooked_bolt"},
   shear_prep : {TRUE}]

NZSAnchorInputs == NZSHeadedInputs \cup NZSHookedInputs

\* Anchors for the shear modes of chapter 17: loading perpendicular and
\* parallel to the edge, thin and thick members, an eccentricity.
NZSShearInputs ==
  [thickness_concrete : {1000, 2000}, diameter : {160}, head_diameter : {300},
   effective_embedment_depth : {600, 1000}, edge_distance : {300, 1000},
   eccentricity : {0, 200}, edge_distance_perp : {None, Some(500)},
   spacing : {None, Some(1000)}, number_of_anchors : 1..MaxAnchors,
   ultimate_tensile_strength : {400}, concrete_strength : {30},
   is_cracked_concrete : {TRUE}, length_hook : {None},
   anchor_type : {"headed_stud", "headed_bolt"}, shear_prep : BOOLEAN]

\* Demands on a chapter 17 anchor, in tens of newtons.
NZSDemandStep == [N |-> 1500, V |-> 2000]

NZS_NInputs == {k * NZSDemandStep.N : k \in 1..MaxDemandSteps}

NZS_VInputs == {0, NZSDemandStep.V}

(***************************************************************************)
(* The program under a sequential caller.  The caller starts idle, and     *)
(* either calls one module-level catalog function, or constructs one       *)
(* calculator and calls one of its methods; then it drops what it holds    *)
(* and is idle again.  obj is the calculator (None when there is none),    *)
(* call the last call made, ret its outcome and stdout what it printed.    *)
(* The calculators' methods read self.anchor and assign nothing, and the   *)
(* catalog functions read ETA_DATABASE and assign nothing, so a call       *)
(* returns the same after any other calls.                                 *)
(***************************************************************************)
Call(op, args) == [op |-> op, args |-> args]

Idle == obj = None /\ call.op = "none"

Init ==
  /\ obj = None
  /\ call = Call("none", <<>>)
  /\ ret = NoReturn
  /\ stdout = <<>>

\* MetalAnchorCapacity_ETAG001_TR045(anchor): __post_init__ of the dataclass,
\* then _validate_inputs and _initialize_factors.
NewCalculator(a) ==
  LET anchor == post_init(a)
      error == validate_inputs(anchor)
  IN  /\ Idle
      /\ obj' = IF Raised(error) THEN None ELSE initialize_factors(anchor)
      /\ call' = Call("MetalAnchorCapacity_ETAG001_TR045", <<a>>)
      /\ ret' = error
      /\ stdout' = validate_warning(anchor)

\* The caller holds an ETAG calculator it has just constructed.
IsETAG == obj # None /\ call.op = "MetalAnchorCapacity_ETAG001_TR045"

CalculateTension ==
  /\ IsETAG
  /\ call' = Call("calculate_tension_capacity_ETAG_5_2_2", <<>>)
  /\ ret' = calculate_tension_capacity_ETAG_5_2_2(obj)
  /\ stdout' = <<>>
  /\ UNCHANGED obj

CalculateShear ==
  /\ IsETAG
  /\ call' = Call("calculate_shear_capacity_ETAG_5_2_3", <<>>)
  /\ ret' = calculate_shear_capacity_ETAG_5_2_3(obj)
  /\ stdout' = <<>>
  /\ UNCHANGED obj

CheckInteraction(N_Ed, V_Ed) ==
  /\ IsETAG
  /\ call' = Call("check_interaction", <<N_Ed, V_Ed>>)
  /\ ret' = check_interaction(obj, N_Ed, V_Ed)
  /\ stdout' = <<>>
  /\ UNCHANGED obj

GetEtaValues(anchor_product, diameter, embedment_depth, concrete_grade) ==
  LET out == get_eta_values(anchor_product, diameter, embedment_depth, concrete_grade)
  IN  /\ Idle
      /\ call' = Call("get_eta_values",
                      <<anchor_product, diameter, embedment_depth, concrete_grade>>)
      /\ ret' = out.result
      /\ stdout' = out.printed
      /\ UNCHANGED obj

GetAnchorPropertiesFromString(anchor_string, concrete_grade) ==
  LET out == get_anchor_properties_from_string(anchor_string, concrete_grade)
  IN  /\ Idle
      /\ call' = Call("get_anchor_properties_from_string", <<anchor_string, concrete_grade>>)
      /\ ret' = out.result
      /\ stdout' = out.printed
      /\ UNCHANGED obj

ParseAnchorProductString(anchor_string) ==
  /\ Idle
  /\ call' = Call("parse_anchor_product_string", <<anchor_string>>)
  /\ ret' = parse_anchor_product_string(anchor_string)
  /\ stdout' = <<>>
  /\ UNCHANGED obj

CalculateAnchorCapacityEtag(kw) ==
  LET out == calculate_anchor_capacity_etag(kw)
  IN  /\ Idle
      /\ call' = Call("calculate_anchor_capacity_etag", <<kw>>)
      /\ ret' = out.result
      /\ stdout' = out.printed
      /\ UNCHANGED obj

CalculateAnchorCapacityEtagDetailed(kw) ==
  LET out == calculate_anchor_capacity_etag_detailed(kw)
  IN  /\ Idle
      /\ call' = Call("calculate_anchor_capacity_etag_detailed", <<kw>>)
      /\ ret' = out.result
      /\ stdout' = out.printed
      /\ UNCHANGED obj

ConvertConcreteGradeToFck(concrete_grade) ==
  /\ Idle
  /\ call' = Call("convert_concrete_grade_to_fck", <<concrete_grade>>)
  /\ ret' = convert_concrete_grade_to_fck(concrete_grade)
  /\ stdout' = <<>>
  /\ UNCHANGED obj

ConvertFckToConcreteGrade(fck) ==
  /\ Idle
  /\ call' = Call("convert_fck_to_concrete_grade", <<fck>>)
  /\ ret' = convert_fck_to_concrete_grade(fck)
  /\ stdout' = <<>>
  /\ UNCHANGED obj

\* AnchorCapacity_Chapter_17(anchor): the constructor stores the anchor.
NewChapter17(a) ==
  /\ Idle
  /\ obj' = [kind |-> "AnchorCapacity_Chapter_17", anchor |-> a]
  /\ call' = Call("AnchorCapacity_Chapter_17", <<a>>)
  /\ ret' = NoReturn
  /\ stdout' = <<>>

\* The caller holds a chapter 17 calculator it has just constructed.
IsChapter17 == obj # None /\ call.op = "AnchorCapacity_Chapter_17"

CalcAnchorTensionStrength ==
  /\ IsChapter17
  /\ call' = Call("_calc_anchor_tension_strength_17_5_7", <<>>)
  /\ ret' = calc_anchor_tension_strength_17_5_7(obj)
  /\ stdout' = <<>>
  /\ UNCHANGED obj

CalcInteractionTensionShear(N, V) ==
  /\ IsChapter17
  /\ call' = Call("calc_interaction_tension_shear_17_5_6", <<N, V>>)
  /\ ret' = calc_interaction_tension_shear_17_5_6(obj, N, V)
  /\ stdout' = <<>>
  /\ UNCHANGED obj

\* The caller is done with the outcome and drops its calculator.
Interpolate1d(data, x_value) ==
  /\ Idle
  /\ call' = Call("_interpolate_1d", <<data, x_value>>)
  /\ ret' = interpolate_1d(data, x_value)
  /\ stdout' = <<>>
  /\ UNCHANGED obj

InterpolateTable(table_data, anchor_size, x_value) ==
  LET out == interpolate_table(table_data, anchor_size, x_value)
  IN  /\ Idle
      /\ call' = Call("_interpolate_table", <<table_data, anchor_size, x_value>>)
      /\ ret' = out.result
      /\ stdout' = out.printed
      /\ UNCHANGED obj

Discard ==
  /\ call.op # "none"
  /\ obj' = None
  /\ call' = Call("none", <<>>)
  /\ ret' = NoReturn
  /\ stdout' = <<>>

Next ==
  \/ \E a \in AnchorInputs : NewCalculator(a)
  \/ CalculateTension
  \/ CalculateShear
  \/ \E N_Ed \in N_EdInputs, V_Ed \in V_EdInputs : CheckInteraction(N_Ed, V_Ed)
  \/ \E anchor_product \in ProductInputs, diameter \in DiameterInputs,
        embedment_depth \in EmbedmentDepthInputs, concrete_grade \in GradeInputs :
       GetEtaValues(anchor_product, diameter, embedment_depth, concrete_grade)
  \/ \E anchor_string \in AnchorStringInputs, concrete_grade \in GradeInputs :
       GetAnchorPropertiesFromString(anchor_string, concrete_grade)
  \/ \E anchor_string \in AnchorStringInputs : ParseAnchorProductString(anchor_string)
  \/ \E kw \in CapacityInputs \cup EdgeCapacityInputs \cup SeismicCapacityInputs :
       CalculateAnchorCapacityEtag(kw)
  \/ \E kw \in EdgeCapacityInputs : CalculateAnchorCapacityEtagDetailed(kw)
  \/ \E concrete_grade \in GradeLabelInputs : ConvertConcreteGradeToFck(concrete_grade)
  \/ \E fck \in FckInputs : ConvertFckToConcreteGrade(fck)
  \/ \E a \in NZSAnchorInputs \cup NZSShearInputs : NewChapter17(a)
  \/ CalcAnchorTensionStrength
  \/ \E N \in NZS_NInputs, V \in NZS_VInputs : CalcInteractionTensionShear(N, V)
  \/ \E data \in DataInputs, x_value \in XValueInputs : Interpolate1d(data, x_value)
  \/ \E table_data \in TableInputs, anchor_size \in AnchorSizeInputs,
        x_value \in XValueInputs :
       InterpolateTable(table_data, anchor_size, x_value)
  \/ Discard

Spec == Init /\ [][Next]_vars

(***************************************************************************)
(* Properties                                                              *)
(***************************************************************************)
TensionReturned ==
  call.op = "calculate_tension_capacity_ETAG_5_2_2" /\ Returned(ret)

ShearReturned ==
  call.op = "calculate_shear_capacity_ETAG_5_2_3" /\ Returned(ret)

Chapter17TensionReturned ==
  call.op = "_calc_anchor_tension_strength_17_5_7" /\ Returned(ret)

InteractionReturned == call.op = "check_interaction" /\ Returned(ret)

\* The capacities of the tension modes of chapter 17 that apply to self.
Chapter17TensionModes(self) ==
  {steel_strength_tensio_17_5_7_1(self),
   concrete_breakout_tension_17_5_7_2(self).value,
   tension_pullout_strength_17_5_7_3(self).value}
    \cup (IF three_modes(self) THEN {}
          ELSE {side_face_blowout_strength_17_5_7_4(self)})

\* C1: the governing tension capacity is <= the capacity of each tension
\* mode computed on its own and equals one of them (ETAG: steel, pull-out,
\* concrete cone; NZS chapter 17: steel, breakout, pull-out, and side-face
\* blowout when it applies); the governing shear capacity is <= each of the
\* steel, pry-out and concrete edge capacities and equals one of them.
C1_GoverningIsLeastMode ==
  /\ TensionReturned =>
       LET modes == {steel_failure_tension_ETAG_5_2_2_2(obj).N_Rd_s,
                     pullout_failure_ETAG_5_2_2_3(obj).N_Rd_p,
                     concrete_cone_failure_ETAG_5_2_2_4(obj).value.N_Rd_c}
       IN  ret.value.N_Rd \in modes /\ \A m \in modes : ret.value.N_Rd <= m
  /\ ShearReturned =>
       LET modes == {steel_failure_shear_ETAG_5_2_3_2(obj).V_Rd_s,
                     concrete_pryout_failure_ETAG_5_2_3_3(obj).value.V_Rd_cp,
                     concrete_edge_failure_ETAG_5_2_3_4(obj).value.V_Rd_c}
       IN  ret.value.V_Rd \in modes /\ \A m \in modes : ret.value.V_Rd <= m
  /\ Chapter17TensionReturned =>
       /\ ret.value \in Chapter17TensionModes(obj)
       /\ \A m \in Chapter17TensionModes(obj) : ret.value <= m

\* The concrete cone governs tension, strictly below steel and pull-out.
C1_Witness ==
  /\ TensionReturned
  /\ ret.value.N_Rd = ret.value.N_Rd_concrete
  /\ ret.value.N_Rd < ret.value.N_Rd_steel
  /\ ret.value.N_Rd < ret.value.N_Rd_pullout

\* The capacity of the mode a governing_mode label names.
NamedCapacity(r) ==
  CASE r.governing_mode = "Steel Failure (ETAG 5.2.2.2)" -> r.N_Rd_steel
    [] r.governing_mode = "Pull-out Failure (ETAG 5.2.2.3)" -> r.N_Rd_pullout
    [] r.governing_mode = "Concrete Cone Failure (ETAG 5.2.2.4)" -> r.N_Rd_concrete
    [] r.governing_mode = "Steel Failure (ETAG 5.2.3.2)" -> r.V_Rd_steel
    [] r.governing_mode = "Concrete Pry-out (ETAG 5.2.3.3)" -> r.V_Rd_pryout
    [] r.governing_mode = "Concrete Edge Failure (ETAG 5.2.3.4)" -> r.V_Rd_concrete

TensionLabels ==
  {"Steel Failure (ETAG 5.2.2.2)", "Pull-out Failure (ETAG 5.2.2.3)",
   "Concrete Cone Failure (ETAG 5.2.2.4)"}

ShearLabels ==
  {"Steel Failure (ETAG 5.2.3.2)", "Concrete Pry-out (ETAG 5.2.3.3)",
   "Concrete Edge Failure (ETAG 5.2.3.4)"}

\* C2: the governing_mode label of the tension and of the shear resolver
\* names a mode whose design capacity equals the governing capacity, also
\* when two or three modes have the same capacity.
C2_LabelNamesGoverningMode ==
  /\ TensionReturned =>
       /\ ret.value.governing_mode \in TensionLabels
       /\ NamedCapacity(ret.value) = ret.value.N_Rd
  /\ ShearReturned =>
       /\ ret.value.governing_mode \in ShearLabels
       /\ NamedCapacity(ret.value) = ret.value.V_Rd

\* Steel and pull-out tie at a positive capacity below the concrete cone.
C2_Witness ==
  /\ TensionReturned
  /\ ret.value.N_Rd_steel = ret.value.N_Rd_pullout
  /\ ret.value.N_Rd_steel < ret.value.N_Rd_concrete
  /\ ret.value.N_Rd > 0
  /\ NamedCapacity(ret.value) = ret.value.N_Rd

\* C3: with positive governing capacities, check_interaction returns
\* utilization = N_Ed / N_Rd + V_Ed / V_Rd for the governing capacities of
\* the same configuration; compliance is true exactly when utilization <= 1.0
\* and status is 'PASS' exactly when compliance is true, else 'FAIL'.
C3_InteractionFormula ==
  InteractionReturned =>
    LET N_Ed == call.args[1]
        V_Ed == call.args[2]
        N_Rd == calculate_tension_capacity_ETAG_5_2_2(obj).value.N_Rd
        V_Rd == calculate_shear_capacity_ETAG_5_2_3(obj).value.V_Rd
        r == ret.value
    IN  (N_Rd > 0 /\ V_Rd > 0) =>
          /\ r.utilization = <<N_Ed * V_Rd + V_Ed * N_Rd, N_Rd * V_Rd>>
          /\ r.compliance <=> (r.utilization[1] <= r.utilization[2])
          /\ r.status = (IF r.compliance THEN "PASS" ELSE "FAIL")

\* Both demands positive and the utilization exactly 1.0: PASS.
C3_Witness ==
  /\ InteractionReturned
  /\ call.args[1] > 0 /\ call.args[2] > 0
  /\ ret.value.N_Rd > 0 /\ ret.value.V_Rd > 0
  /\ ret.value.utilization[1] = ret.value.utilization[2]
  /\ ret.value.status = "PASS"

\* C4: the pass threshold of the interaction check is a configuration
\* parameter supplied through the interface (1.0 or 1.2), not a constant
\* fixed inside the function: whichever threshold of LimitInputs the caller
\* configures, compliance is true exactly when utilization <= that threshold.
C4_ThresholdIsConfigured ==
  InteractionReturned =>
    \A limit \in LimitInputs :
      ret.value.compliance <=> RLe(ret.value.utilization, limit)

\* The keys get_eta_values looks up: those of an encoded product string,
\* else the arguments.
LookupKeys ==
  LET parsed == try_parse_anchor_string(call.args[1])
  IN  [product |-> parsed[1],
       diameter |-> IF parsed[2] # None THEN parsed[2][1] ELSE call.args[2],
       depth |-> IF parsed[3] # None THEN parsed[3][1] ELSE call.args[3],
       grade |-> call.args[4]]

LookupCalled == call.op = "get_eta_values"

ProductKnown == LookupKeys.product \in DOMAIN ETA_DATABASE

DiameterKnown ==
  ProductKnown /\ LookupKeys.diameter \in DOMAIN ETA_DATABASE[LookupKeys.product]

\* The depths tabulated for the product and diameter looked up.
TabulatedDepths == DOMAIN ETA_DATABASE[LookupKeys.product][LookupKeys.diameter]

\* The grades tabulated for depth d of the product and diameter looked up.
TabulatedGrades(d) == DOMAIN ETA_DATABASE[LookupKeys.product][LookupKeys.diameter][d]

CatalogEntry(d) ==
  ETA_DATABASE[LookupKeys.product][LookupKeys.diameter][d][LookupKeys.grade]

RaisedWith(m) == Raised(ret) /\ ret.error = "ValueError" /\ ret.message = m

\* C5: get_eta_values fails on the first missing key in the order product,
\* diameter, (embedment depth resolved,) grade, and returns exactly the
\* catalog entry when product, diameter, exact depth and grade are tabulated.
C5_LookupOrder ==
  LookupCalled =>
    /\ ~ProductKnown => RaisedWith("Anchor product not in ETA database")
    /\ (ProductKnown /\ ~DiameterKnown) => RaisedWith("Diameter not available")
    /\ (DiameterKnown /\ ~RaisedWith("Embedment depth not available")
          /\ \A d \in TabulatedDepths : LookupKeys.grade \notin TabulatedGrades(d))
         => RaisedWith("Concrete grade not available")
    /\ (DiameterKnown /\ LookupKeys.depth \in TabulatedDepths
          /\ LookupKeys.grade \in TabulatedGrades(LookupKeys.depth))
         => /\ ret = Return(CatalogEntry(LookupKeys.depth))
            /\ stdout = <<>>

\* An unknown grade is reported for a known product and diameter after the
\* depth was resolved to a neighbour.
C5_Witness ==
  /\ LookupCalled
  /\ DiameterKnown
  /\ LookupKeys.depth \notin TabulatedDepths
  /\ RaisedWith("Concrete grade not available")

\* The tabulated depths nearest to the requested one.
NearestDepths ==
  {d \in TabulatedDepths :
     \A x \in TabulatedDepths :
       Abs(d - LookupKeys.depth) <= Abs(x - LookupKeys.depth)}

\* |d - requested| <= 15 % of d.
Within15(d) == 100 * Abs(d - LookupKeys.depth) <= 15 * d

\* C6: a tabulated requested depth is used as it is; otherwise the lookup
\* succeeds with the entry of a nearest tabulated depth d* when
\* |d* - requested| <= 15 % of d*, and fails with the embedment error when
\* the difference exceeds 15 % of d*.
C6_DepthResolution ==
  (LookupCalled /\ DiameterKnown /\ \A d \in TabulatedDepths :
                                      LookupKeys.grade \in TabulatedGrades(d)) =>
    IF LookupKeys.depth \in TabulatedDepths
    THEN ret = Return(CatalogEntry(LookupKeys.depth))
    ELSE \/ /\ Returned(ret)
            /\ \E d \in NearestDepths : Within15(d) /\ ret.value = CatalogEntry(d)
         \/ /\ RaisedWith("Embedment depth not available")
            /\ \E d \in NearestDepths : ~Within15(d)

\* A request exactly 15 % above the one nearest tabulated depth succeeds.
C6_Witness ==
  /\ LookupCalled /\ DiameterKnown /\ Returned(ret)
  /\ LookupKeys.depth \notin TabulatedDepths
  /\ \E d \in NearestDepths :
       /\ NearestDepths = {d}
       /\ 100 * (LookupKeys.depth - d) = 15 * d
       /\ ret.value = CatalogEntry(d)

\* The call substituted a tabulated depth for the requested one.
Substituted ==
  /\ call.op \in {"get_eta_values", "get_anchor_properties_from_string"}
  /\ Returned(ret)
  /\ stdout # <<>>

\* C7: when a requested depth is resolved to a tabulated depth nearby, the
\* result handed back reports the substituted depth, so that the caller can
\* tell an approximate match from an exact one.
C7_ResultReportsSubstitutedDepth ==
  Substituted =>
    /\ "embedment_depth" \in DOMAIN ret.value
    /\ ret.value.embedment_depth = stdout[1].adjusted

\* The concrete edge mode was skipped for an edge distance of 9999 mm or more.
Skipped(concrete_edge_details) == "skip_reason" \in DOMAIN concrete_edge_details

\* C8: psi_s_N, psi_re_N, psi_ec1_N, psi_ec2_N, psi_s_V and psi_ec_V are
\* never above 1.0, psi_h_V and psi_alpha_V never below 1.0, for any sign of
\* eccentricity; at c = c_cr_N, c2 = 1.5 * c1 and h = 1.5 * c1 the factor is
\* exactly 1.0.
C8_FactorsBounded ==
  /\ TensionReturned =>
       LET d == ret.value.concrete_details
       IN  /\ RLe(d.psi_s_N, One) /\ RLe(d.psi_re_N, One)
           /\ RLe(d.psi_ec1_N, One) /\ RLe(d.psi_ec2_N, One)
           /\ obj.anchor.edge_distance = obj.anchor.c_cr_N => REq(d.psi_s_N, One)
  /\ (ShearReturned /\ ~Skipped(ret.value.concrete_edge_details)) =>
       LET d == ret.value.concrete_edge_details
           a == obj.anchor
       IN  /\ RLe(d.psi_s_V, One) /\ RLe(d.psi_ec_V, One)
           /\ RLe(One, d.psi_h_V) /\ RLe(One, d.psi_alpha_V)
           /\ (a.edge_distance_c2 # None
                 /\ 2 * a.edge_distance_c2[1] = 3 * a.edge_distance)
                => REq(d.psi_s_V, One)
           /\ 2 * a.concrete_thickness = 3 * a.edge_distance => REq(d.psi_h_V, One)

\* Shear with c2 = 1.5 * c1, h = 1.5 * c1 and a negative eccentricity.
C8_Witness ==
  /\ ShearReturned
  /\ ~Skipped(ret.value.concrete_edge_details)
  /\ obj.anchor.edge_distance_c2 = Some(900)
  /\ obj.anchor.edge_distance = 600
  /\ obj.anchor.concrete_thickness = 900
  /\ obj.anchor.e_V < 0
  /\ ~REq(ret.value.concrete_edge_details.psi_ec_V, One)

\* C9: the pry-out multiplier k is 1.0 for every embedment depth below 60 mm
\* and 2.0 for every embedment depth of 60 mm or more.
C9_PryoutMultiplier ==
  ShearReturned =>
    ret.value.pryout_details.k_pryout =
      (IF obj.anchor.embedment_depth < 60000 THEN 1 ELSE 2)

\* An embedment depth of exactly 60 mm.
C9_Witness ==
  /\ ShearReturned
  /\ obj.anchor.embedment_depth = 60000
  /\ ret.value.pryout_details.k_pryout = 2

\* C10: for a single anchor with edge distance >= c_cr_N and s_cr_N > 0 the
\* area ratio A_c,N / A0_c,N of the concrete cone is exactly 1.0, whatever
\* the member thickness and the spacings supplied.
C10_SingleAnchorAreaRatio ==
  (TensionReturned /\ obj.anchor.number_of_anchors = 1
     /\ obj.anchor.edge_distance >= obj.anchor.c_cr_N /\ obj.anchor.s_cr_N > 0) =>
    ret.value.concrete_details.area_ratio[1] = ret.value.concrete_details.area_ratio[2]

\* A single anchor past c_cr_N with spacings supplied.
C10_Witness ==
  /\ TensionReturned
  /\ obj.anchor.number_of_anchors = 1
  /\ obj.anchor.edge_distance >= obj.anchor.c_cr_N
  /\ obj.anchor.spacing = Some(1000)
  /\ obj.anchor.spacing_x # None
  /\ REq(ret.value.concrete_details.area_ratio, One)

\* The call of calc_interaction_tension_shear_17_5_6 returned.
Chapter17InteractionReturned ==
  call.op = "calc_interaction_tension_shear_17_5_6" /\ Returned(ret)

\* p <= q for two fractions over the same denominator.
SameDenominatorLe(p, q) ==
  /\ p[2] = q[2]
  /\ IF p[2] > 0 THEN p[1] <= q[1] ELSE p[1] >= q[1]

\* C11: for a fixed applied shear, the utilization reported for an applied
\* tension N1 is <= the utilization reported for every applied tension
\* N2 >= N1, by check_interaction and by
\* calc_interaction_tension_shear_17_5_6.
C11_InteractionMonotone ==
  /\ InteractionReturned =>
       \A N1 \in N_EdInputs :
         N1 <= call.args[1] =>
           LET lower == check_interaction(obj, N1, call.args[2])
           IN  /\ Returned(lower)
               /\ SameDenominatorLe(lower.value.utilization, ret.value.utilization)
  /\ Chapter17InteractionReturned =>
       \A N1 \in NZS_NInputs :
         N1 <= call.args[1] =>
           LET lower == calc_interaction_tension_shear_17_5_6(obj, N1, call.args[2])
           IN  /\ Returned(lower)
               /\ SameDenominatorLe(lower.value[2], ret.value[2])

\* A chapter 17 interaction with a positive shear demand returned a unity
\* that is strictly above the unity of a smaller tension demand.
C11_Witness ==
  /\ Chapter17InteractionReturned
  /\ call.args[2] > 0
  /\ \E N1 \in NZS_NInputs :
       /\ N1 < call.args[1]
       /\ LET lower == calc_interaction_tension_shear_17_5_6(obj, N1, call.args[2])
          IN  lower.value[2][1] < ret.value[2][1]

\* C12: with seismic design off and a gap factor of 1.0 the steel tension
\* design capacity is N0_Rk_s / 1.5 exactly (N_Rd_s / 600 kN = N0_Rk_s / 10 kN
\* / 1.5), whatever the edge distances, thickness, anchor count, spacing,
\* eccentricities, cracked state and edge reinforcement are.
C12_SteelTensionFromCatalog ==
  (TensionReturned /\ ~obj.anchor.seismic_design /\ obj.anchor.alpha_gap = 2) =>
    /\ 15 * ret.value.N_Rd_steel = 600 * obj.anchor.N0_Rk_s
    /\ ret.value.steel_details.N_Rd_s = ret.value.N_Rd_steel

\* A group of two in uncracked concrete with edge reinforcement, not seismic
\* and with gap factor 1.0, has a positive steel tension capacity.
C12_Witness ==
  /\ TensionReturned
  /\ ~obj.anchor.seismic_design /\ obj.anchor.alpha_gap = 2
  /\ obj.anchor.number_of_anchors = 2
  /\ ~obj.anchor.is_cracked_concrete /\ obj.anchor.has_edge_reinforcement
  /\ ret.value.N_Rd_steel > 0

\* C13: with a primary edge distance of 9999 mm or more the concrete edge
\* mode is skipped: its capacity is reported as unbounded, the governing
\* shear capacity is the smaller of the steel and pry-out capacities, and the
\* governing mode recorded is not the concrete edge failure.
C13_EdgeModeSkipped ==
  (ShearReturned /\ obj.anchor.edge_distance >= 99990) =>
    /\ Skipped(ret.value.concrete_edge_details)
    /\ ret.value.concrete_edge_details.V_Rd_c = Inf
    /\ ret.value.V_Rd_concrete = Inf
    /\ ret.value.V_Rd = Min2(ret.value.V_Rd_steel, ret.value.V_Rd_pryout)
    /\ ret.value.V_Rd = Min2(steel_failure_shear_ETAG_5_2_3_2(obj).V_Rd_s,
                             concrete_pryout_failure_ETAG_5_2_3_3(obj).value.V_Rd_cp)
    /\ ret.value.governing_mode # "Concrete Edge Failure (ETAG 5.2.3.4)"

\* An edge distance above 9999 mm where pry-out governs, below steel.
C13_Witness ==
  /\ ShearReturned
  /\ obj.anchor.edge_distance > 99990
  /\ ret.value.governing_mode = "Concrete Pry-out (ETAG 5.2.3.3)"
  /\ ret.value.V_Rd_pryout < ret.value.V_Rd_steel

\* The call of parse_anchor_product_string and its argument's segments.
ParseCalled == call.op = "parse_anchor_product_string"

\* A diameter segment that is an integer followed by 'M'.
IntegerThenM(segment) ==
  /\ Len(segment) >= 2
  /\ endswith(segment, "M")
  /\ IsDigits(SubSeq(segment, 1, Len(segment) - 1))

\* '<Product>-<Diameter>M-<Embedment>': three segments split at the last two
\* hyphens, an integer followed by 'M', and a number.
WellFormed(anchor_string) ==
  LET parts == rsplit2(anchor_string)
  IN  /\ Len(parts) = 3
      /\ IntegerThenM(parts[2])
      /\ float(parts[3]) # None

\* C14: parse_anchor_product_string returns the triple <<product, integer
\* diameter, float embedment>> of a well-formed string naming a catalog
\* product, and raises an error, returning no triple, for every malformed
\* string: fewer than three segments, a diameter segment that is not an
\* integer followed by 'M', or an embedment segment that is not numeric.
C14_ParseRejectsMalformed ==
  ParseCalled =>
    LET anchor_string == call.args[1]
        parts == rsplit2(anchor_string)
    IN  /\ ~WellFormed(anchor_string) => Raised(ret)
        /\ (WellFormed(anchor_string) /\ Returned(ret)) =>
             /\ ret.value[1] = DictGet(product_name_mapping, parts[1], parts[1])
             /\ Some(ret.value[2]) = int(SubSeq(parts[2], 1, Len(parts[2]) - 1))
             /\ Some(ret.value[3]) = float(parts[3])

\* The call of calculate_anchor_capacity_etag and its keyword arguments.
CapacityCalled == call.op = "calculate_anchor_capacity_etag"

\* The keyword arguments of the call with the product, diameter and depth
\* that the encoded name '<P>-<d>M-<e>' spells out, all others equal.
DecodedArguments(kw) ==
  LET parts == rsplit2(kw.anchor_product)
  IN  [kw EXCEPT !.anchor_product = parts[1],
                 !.diameter = 10 * DigitsValue(SubSeq(parts[2], 1, Len(parts[2]) - 1)),
                 !.embedment_depth = float(parts[3])[1]]

\* C15: calculate_anchor_capacity_etag called with anchor_product =
\* '<P>-<d>M-<e>' has the same outcome, the same tension and shear
\* capacities or the same error, as the call with anchor_product = P,
\* diameter = d and embedment_depth = e and all other arguments equal,
\* whatever diameter and embedment_depth accompany the encoded name.
C15_EncodedNameEquivalent ==
  (CapacityCalled /\ WellFormed(call.args[1].anchor_product)) =>
    ret = calculate_anchor_capacity_etag(DecodedArguments(call.args[1])).result

\* An encoded name accompanied by a different diameter and a different depth
\* returns the capacities of the decoded arguments.
C15_Witness ==
  /\ CapacityCalled
  /\ WellFormed(call.args[1].anchor_product)
  /\ Returned(ret)
  /\ call.args[1].diameter # DecodedArguments(call.args[1]).diameter
  /\ call.args[1].embedment_depth # DecodedArguments(call.args[1]).embedment_depth
  /\ ret = calculate_anchor_capacity_etag(DecodedArguments(call.args[1])).result
  /\ ret.value[1] > 0
  /\ ret.value[2] > 0

\* The call of convert_fck_to_concrete_grade.
GradeCalled == call.op = "convert_fck_to_concrete_grade"

\* The tabulated cylinder strengths, in hundredths of MPa.
TabulatedStrengths == {2000, 2500, 3000, 3500, 4000, 4500, 5000}

\* The tabulated strengths at least distance from x.
ClosestStrengths(x) ==
  {t \in TabulatedStrengths : \A u \in TabulatedStrengths : Abs(t - x) <= Abs(u - x)}

\* C16: for every cylinder strength x, the label convert_fck_to_concrete_grade
\* gives converts back, by convert_concrete_grade_to_fck, to a tabulated
\* strength closest to x; to x itself for a tabulated x; and 25 MPa gives
\* the label "C25/30", which converts back to 25.
C16_GradeRoundTrip ==
  GradeCalled =>
    /\ Returned(ret)
    /\ LET x == call.args[1]
           back == convert_concrete_grade_to_fck(ret.value)
       IN  /\ Returned(back)
           /\ back.value \in ClosestStrengths(x)
           /\ x \in TabulatedStrengths => back.value = x
           /\ x = 2500 => ret.value = "C25/30" /\ back.value = 2500

\* A strength between two tabulated ones, just above their midpoint, whose
\* label converts back to the upper one.
C16_Witness ==
  /\ GradeCalled
  /\ Returned(ret)
  /\ call.args[1] = 2275
  /\ ret.value = "C25/30"
  /\ convert_concrete_grade_to_fck(ret.value) = Return(2500)

\* The constructor call of the ETAG calculator.
ConstructorCalled == call.op = "MetalAnchorCapacity_ETAG001_TR045"

\* The anchor counts of the supported patterns.
SupportedCounts == {1, 2, 4}

\* C17: an anchor count that is not 1, 2 or 4 is rejected with a
\* configuration error: the constructor raises for it, and no tension or
\* shear capacity is returned for such a configuration.
C17_UnsupportedCountRejected ==
  /\ (ConstructorCalled /\ call.args[1].number_of_anchors \notin SupportedCounts)
       => Raised(ret)
  /\ (TensionReturned \/ ShearReturned)
       => obj.anchor.number_of_anchors \in SupportedCounts

\* The anchor a with every spacing field left out.
WithoutSpacing(a) ==
  [a EXCEPT !.spacing = None, !.spacing_x = None, !.spacing_y = None]

\* The spacing fields the anchor count of a requires are all supplied.
SpacingSupplied(a) ==
  /\ a.number_of_anchors = 2 => a.spacing # None
  /\ a.number_of_anchors = 4 => a.spacing_x # None /\ a.spacing_y # None

\* C18: the constructor of the ETAG calculator raises, leaving no calculator
\* to compute a capacity, for 2 anchors without spacing and for 4 anchors
\* without spacing_x or spacing_y; with positive diameter and depth it
\* accepts 1, 2 or 4 anchors whose required spacing fields are supplied, a
\* single anchor needing none; and the tension and shear results of a single
\* anchor are those of the same anchor without any spacing field.
C18_SpacingRequiredForGroups ==
  /\ ConstructorCalled =>
       LET a == call.args[1]
       IN  /\ ~SpacingSupplied(a) => Raised(ret) /\ obj = None
           /\ (a.number_of_anchors \in SupportedCounts /\ SpacingSupplied(a)
               /\ a.diameter > 0 /\ a.embedment_depth > 0)
                => ~Raised(ret) /\ obj # None
  /\ (call.op = "calculate_tension_capacity_ETAG_5_2_2"
      /\ obj.anchor.number_of_anchors = 1)
       => ret = calculate_tension_capacity_ETAG_5_2_2(
                  initialize_factors(WithoutSpacing(obj.anchor)))
  /\ (call.op = "calculate_shear_capacity_ETAG_5_2_3"
      /\ obj.anchor.number_of_anchors = 1)
       => ret = calculate_shear_capacity_ETAG_5_2_3(
                  initialize_factors(WithoutSpacing(obj.anchor)))

\* Four anchors with spacing_y but no spacing_x: the constructor raised and
\* there is no calculator.
C18_Witness ==
  /\ ConstructorCalled
  /\ call.args[1].number_of_anchors = 4
  /\ call.args[1].spacing_x = None
  /\ call.args[1].spacing_y # None
  /\ Raised(ret)
  /\ obj = None

\* Some geometric field of a is not positive, or a spacing is negative.
NonPositiveGeometry(a) ==
  \/ a.diameter <= 0
  \/ a.embedment_depth <= 0
  \/ a.edge_distance <= 0
  \/ a.concrete_thickness <= 0
  \/ \E s \in {a.spacing, a.spacing_x, a.spacing_y} : s # None /\ s[1] < 0

\* C19: a configuration whose diameter, embedment depth, edge distance or
\* member thickness is zero or negative, or whose spacing is negative, is
\* rejected with an error: the constructor raises for it, and no tension or
\* shear capacity is returned for it from a default substituted for the field.
C19_NonPositiveGeometryRejected ==
  /\ (ConstructorCalled /\ NonPositiveGeometry(call.args[1])) => Raised(ret)
  /\ (TensionReturned \/ ShearReturned) => ~NonPositiveGeometry(obj.anchor)

\* C20: when the critical spacing s_cr_N or the critical edge distance
\* c_cr_N of the configuration is zero, the concrete-cone evaluation of the
\* tension capacity completes without raising an error, and each factor
\* whose denominator is zero takes the neutral value 1.0.
C20_ZeroDenominatorsGuarded ==
  (call.op = "calculate_tension_capacity_ETAG_5_2_2"
   /\ (obj.anchor.s_cr_N = 0 \/ obj.anchor.c_cr_N = 0)) =>
    /\ Returned(ret)
    /\ obj.anchor.s_cr_N = 0 =>
         /\ REq(ret.value.concrete_details.psi_ec1_N, One)
         /\ REq(ret.value.concrete_details.psi_ec2_N, One)
    /\ obj.anchor.c_cr_N = 0 => REq(ret.value.concrete_details.psi_s_N, One)

\* The constructor returned a calculator.
Constructed == ConstructorCalled /\ obj # None

\* The six seismic factors of a calculator, by failure mode.
SeismicFactorsOf(self) ==
  [tension_steel |-> self.alpha_seis_steel_tension,
   tension_pullout |-> self.alpha_seis_pullout,
   tension_concrete |-> self.alpha_seis_concrete,
   shear_steel |-> self.alpha_seis_steel_shear,
   shear_concrete |-> self.alpha_seis_concrete_shear,
   shear_pryout |-> self.alpha_seis_pryout]

\* The key of the seismic table for a failure mode: single or group, and
\* undercut or other for the concrete-cone and pry-out modes.
SeismicKey(mode, count, undercut) ==
  mode \o (IF count = 1 THEN "_single" ELSE "_group")
       \o (IF mode \in {"tension_concrete", "shear_pryout"}
           THEN (IF undercut THEN "_undercut" ELSE "_other")
           ELSE "")

\* C22: without seismic design the six seismic factors of the calculator are
\* exactly 1.0 whatever the anchor count and the undercut flag; with seismic
\* design each factor is the entry of EOTA_TR045_SEISMIC_FACTORS for (single
\* if the count is 1, group otherwise) x (undercut or other, for the
\* concrete-cone and pry-out modes) x (failure mode).
C22_SeismicFactorSelection ==
  Constructed =>
    LET a == obj.anchor
        factors == SeismicFactorsOf(obj)
    IN  \A mode \in DOMAIN factors :
          factors[mode] =
            IF a.seismic_design
            THEN EOTA_TR045_SEISMIC_FACTORS[
                   SeismicKey(mode, a.number_of_anchors, a.is_undercut_anchor)]
            ELSE 20

\* A seismic undercut group: pull-out, concrete cone, steel shear, concrete
\* edge and pry-out are reduced to 0.85, steel tension is not.
C22_Witness ==
  /\ Constructed
  /\ obj.anchor.seismic_design
  /\ obj.anchor.is_undercut_anchor
  /\ obj.anchor.number_of_anchors = 2
  /\ SeismicFactorsOf(obj) =
       [tension_steel |-> 20, tension_pullout |-> 17, tension_concrete |-> 17,
        shear_steel |-> 17, shear_concrete |-> 17, shear_pryout |-> 17]

\* The shear result of the calculator's anchor with alpha_gap = 1.0, all
\* other inputs equal.
ShearWithoutClearance(self) ==
  calculate_shear_capacity_ETAG_5_2_3(
    initialize_factors([self.anchor EXCEPT !.alpha_gap = 2]))

\* C23: the caller's gap factor is the one every shear mode reports and
\* uses: the steel shear design capacity is alpha_gap x alpha_seis x V0_Rk_s
\* / 1.5 (in 1/600 kN: halves x twentieths x tenths), and at alpha_gap = 0.5
\* the steel shear capacity and the governing shear capacity are exactly half
\* of those at alpha_gap = 1.0 with all other inputs equal.
C23_GapFactorPassedThrough ==
  ShearReturned =>
    /\ ret.value.steel_details.alpha_gap = obj.anchor.alpha_gap
    /\ ret.value.pryout_details.alpha_gap = obj.anchor.alpha_gap
    /\ ~Skipped(ret.value.concrete_edge_details) =>
         ret.value.concrete_edge_details.alpha_gap = obj.anchor.alpha_gap
    /\ ret.value.V_Rd_steel =
         obj.anchor.alpha_gap * obj.alpha_seis_steel_shear * obj.anchor.V0_Rk_s
    /\ obj.anchor.alpha_gap = 1 =>
         LET full == ShearWithoutClearance(obj)
         IN  /\ Returned(full)
             /\ 2 * ret.value.V_Rd_steel = full.value.V_Rd_steel
             /\ 2 * ret.value.V_Rd = full.value.V_Rd

\* A seismic group with a clearance hole whose shear is governed by a
\* concrete mode: the governing capacity is half of the one without clearance.
C23_Witness ==
  /\ ShearReturned
  /\ obj.anchor.alpha_gap = 1
  /\ obj.anchor.seismic_design
  /\ ret.value.V_Rd > 0
  /\ ret.value.V_Rd < ret.value.V_Rd_steel
  /\ 2 * ret.value.V_Rd = ShearWithoutClearance(obj).value.V_Rd
  /\ 2 * ret.value.V_Rd_steel = ShearWithoutClearance(obj).value.V_Rd_steel

\* The spacings that enter the projected area of a: spacing for 2 anchors,
\* spacing_x and spacing_y for 4.
SpacingFields(a) ==
  IF a.number_of_anchors = 2 THEN {"spacing"} ELSE {"spacing_x", "spacing_y"}

\* Twice the projected area of a with spacing field f set to s.
AreaWithSpacing(a, f, s) ==
  calculate_projected_area_tension([a EXCEPT ![f] = Some(s)])

\* Spacings from 0 to 500 mm in steps of 50 mm, and the critical spacing.
SpacingGrid(a) == {500 * k : k \in 0..10} \cup {a.s_cr_N}

\* C24: for a group of 2 or 4 anchors the projected tension area reported by
\* the concrete-cone mode is, for a spacing s >= s_cr_N, the area at
\* s = s_cr_N; it does not decrease when a spacing grows; and with edge
\* distance >= c_cr_N the area ratio is at most 2 for 2 anchors and at most
\* 4 for 4 anchors.
C24_SpacingCappedAtCritical ==
  (TensionReturned /\ obj.anchor.number_of_anchors \in {2, 4}) =>
    LET a == obj.anchor
        d == ret.value.concrete_details
    IN  /\ d.A_c_N = calculate_projected_area_tension(a)
        /\ \A f \in SpacingFields(a) :
             /\ a[f][1] >= a.s_cr_N => d.A_c_N = AreaWithSpacing(a, f, a.s_cr_N)
             /\ \A s \in SpacingGrid(a) :
                  /\ s <= a[f][1] => AreaWithSpacing(a, f, s) <= d.A_c_N
                  /\ s >= a[f][1] => AreaWithSpacing(a, f, s) >= d.A_c_N
        /\ a.edge_distance >= a.c_cr_N =>
             d.area_ratio[1] <= a.number_of_anchors * d.area_ratio[2]

\* Four anchors far from the edge with spacing_x and spacing_y above the
\* critical spacing: the area ratio is exactly 4.
C24_Witness ==
  /\ TensionReturned
  /\ obj.anchor.number_of_anchors = 4
  /\ obj.anchor.edge_distance >= obj.anchor.c_cr_N
  /\ obj.anchor.spacing_x[1] > obj.anchor.s_cr_N
  /\ obj.anchor.spacing_y[1] > obj.anchor.s_cr_N
  /\ ret.value.concrete_details.area_ratio[1]
       = 4 * ret.value.concrete_details.area_ratio[2]

\* The {x: y} dict a call of _interpolate_1d or _interpolate_table reads, and
\* the abscissa it is asked for.
InterpolationCalled == call.op \in {"_interpolate_1d", "_interpolate_table"}

InterpolatedData ==
  IF call.op = "_interpolate_1d" THEN call.args[1]
  ELSE IF call.args[2] \in DOMAIN call.args[1] THEN call.args[1][call.args[2]]
  ELSE <<>>

InterpolatedAt == IF call.op = "_interpolate_1d" THEN call.args[2] ELSE call.args[3]

\* The value at x on the straight line through (x0, data[x0]) and
\* (x1, data[x1]), as a fraction.
OnLine(data, x0, x1, x) ==
  <<data[x0] * (x1 - x0) + (data[x1] - data[x0]) * (x - x0), x1 - x0>>

\* C25: for a table of two or more points and an abscissa above the largest
\* (below the smallest) tabulated one, _interpolate_1d and _interpolate_table
\* return the value on the straight line through the two nearest tabulated
\* points.
C25_LinearExtrapolation ==
  (InterpolationCalled /\ Len(sorted(DOMAIN InterpolatedData)) >= 2) =>
    LET xs == sorted(DOMAIN InterpolatedData)
        n == Len(xs)
        x == InterpolatedAt
    IN  /\ Returned(ret)
        /\ x > xs[n] => REq(ret.value, OnLine(InterpolatedData, xs[n - 1], xs[n], x))
        /\ x < xs[1] => REq(ret.value, OnLine(InterpolatedData, xs[1], xs[2], x))

\* The call of calculate_anchor_capacity_etag_detailed.
DetailedCalled == call.op = "calculate_anchor_capacity_etag_detailed"

\* C26: for identical arguments the summary N_Rd_N and V_Rd_N of
\* calculate_anchor_capacity_etag_detailed are the tension and shear values
\* of the tuple calculate_anchor_capacity_etag returns, also when
\* edge_distance_c2 is omitted.
C26_DetailedMatchesSimple ==
  (DetailedCalled /\ Returned(ret)) =>
    LET simple == calculate_anchor_capacity_etag(call.args[1]).result
    IN  /\ Returned(simple)
        /\ ret.value.summary.N_Rd_N = simple.value[1]
        /\ ret.value.summary.V_Rd_N = simple.value[2]

\* The lookup inside calculate_anchor_capacity_etag substituted a tabulated
\* embedment depth for the requested one.
CapacityLookup ==
  get_eta_values(call.args[1].anchor_product, call.args[1].diameter,
                 call.args[1].embedment_depth, call.args[1].concrete_grade)

CapacitySubstituted ==
  /\ CapacityCalled
  /\ Returned(ret)
  /\ CapacityLookup.printed # <<>>

\* The keyword arguments of the call with the tabulated depth the lookup
\* adjusted to, product and diameter decoded, all others equal.
TabulatedArguments ==
  LET kw == call.args[1]
      parsed == try_parse_anchor_string(kw.anchor_product)
  IN  [kw EXCEPT !.anchor_product = parsed[1],
                 !.diameter = IF parsed[2] # None THEN parsed[2][1] ELSE @,
                 !.embedment_depth = CapacityLookup.printed[1].adjusted]

\* C27: when the lookup substitutes a tabulated embedment depth for the
\* requested one, calculate_anchor_capacity_etag evaluates with the
\* substituted depth everywhere: the capacities it returns are those of the
\* call with the tabulated depth.
C27_SubstitutedDepthUsed ==
  CapacitySubstituted =>
    ret = calculate_anchor_capacity_etag(TabulatedArguments).result

\* C28: check_interaction reports FAIL whenever the governing tension
\* capacity is zero or negative and the applied tension is positive, or the
\* governing shear capacity is zero or negative and the applied shear is
\* positive.
C28_NoPassWithoutCapacity ==
  (InteractionReturned
   /\ \/ (ret.value.N_Rd <= 0 /\ ret.value.N_Ed > 0)
      \/ (ret.value.V_Rd <= 0 /\ ret.value.V_Ed > 0)) =>
    /\ ret.value.status = "FAIL"
    /\ ~ret.value.compliance

\* Steps per tenth of a millimetre of the edge distances a single anchor's
\* projected area is evaluated at: 4 gives a grid of 0.025 mm.
EdgeResolution == 4

\* The anchor with its critical distances on the finer grid and edge
\* distance c of that grid; the projected area is a product of two lengths,
\* so it comes out in the square of the finer unit.
FinerAnchor(a, c) ==
  [a EXCEPT !.s_cr_N = EdgeResolution * @, !.c_cr_N = EdgeResolution * @,
            !.edge_distance = c]

\* Every positive edge distance of the finer grid up to a tenth of a
\* millimetre above the critical edge distance.
FinerEdges(a) == 1 .. (EdgeResolution * (a.c_cr_N + 1))

\* The pairs (s_cr_N, c_cr_N) of the entries of the product catalog.
CatalogCriticalDistances ==
  {<<ETA_DATABASE[p][d][h][g].s_cr_N, ETA_DATABASE[p][d][h][g].c_cr_N>> :
     <<p, d, h, g>> \in {<<p, d, h, g>> \in
       (DOMAIN ETA_DATABASE) \X {100, 120} \X
         {60000, 80000, 79900, 100000, 122000, 110000} \X {"C20/25"} :
       /\ d \in DOMAIN ETA_DATABASE[p]
       /\ h \in DOMAIN ETA_DATABASE[p][d]}}

\* A calculator of a single anchor with the critical distances of a catalog
\* entry has been constructed.
SingleCatalogAnchor ==
  /\ Constructed
  /\ obj.anchor.number_of_anchors = 1
  /\ <<obj.anchor.s_cr_N, obj.anchor.c_cr_N>> \in CatalogCriticalDistances

\* C29: for a single anchor with the s_cr_N and c_cr_N of a catalog entry
\* the projected tension area A_c,N never exceeds A0_c,N = s_cr_N^2, at every
\* positive edge distance below or above the critical edge distance.
C29_SingleAreaRatioAtMostOne ==
  SingleCatalogAnchor =>
    \A c \in FinerEdges(obj.anchor) :
      LET a == FinerAnchor(obj.anchor, c)
      IN  calculate_projected_area_tension(a) <= 2 * (a.s_cr_N * a.s_cr_N)

\* The products of the catalog's section of undercut anchors.
UndercutProducts == {"HDA", "HSC"}

\* calculate_anchor_capacity_etag has returned capacities for a call with
\* seismic design requested.
SeismicEvaluation ==
  /\ CapacityCalled
  /\ Returned(ret)
  /\ call.args[1].seismic_design

\* The catalog product of the call, decoded from its name.
EvaluatedProduct == try_parse_anchor_string(call.args[1].anchor_product)[1]

\* The calculator calculate_anchor_capacity_etag builds for the keyword
\* arguments kw, when the lookup and the constructor raise nothing.
calculator_of(kw) ==
  LET parsed == try_parse_anchor_string(kw.anchor_product)
      diameter == IF parsed[2] # None THEN parsed[2][1] ELSE kw.diameter
      embedment_depth ==
        IF parsed[3] # None THEN parsed[3][1] ELSE kw.embedment_depth
      f_ck == convert_concrete_grade_to_fck(kw.concrete_grade)
      eta == get_eta_values(parsed[1], diameter, embedment_depth, kw.concrete_grade)
  IN  initialize_factors(
        post_init(anchor_props_of(kw, diameter, embedment_depth, f_ck.value,
                                  eta.result.value)))

\* The calculator calculate_anchor_capacity_etag builds for the call.
EvaluatedCalculator == calculator_of(call.args[1])

\* The calculator with the concrete-cone and pry-out factors of the
\* undercut or the other rows of the seismic table.
WithSeismicRows(calculator, undercut) ==
  LET n == calculator.anchor.number_of_anchors
  IN  [calculator EXCEPT
         !.alpha_seis_concrete =
           EOTA_TR045_SEISMIC_FACTORS[SeismicKey("tension_concrete", n, undercut)],
         !.alpha_seis_pryout =
           EOTA_TR045_SEISMIC_FACTORS[SeismicKey("shear_pryout", n, undercut)]]

\* C30: with seismic design requested, calculate_anchor_capacity_etag
\* returns for an undercut product of the catalog (HDA, HSC) the capacities
\* with the undercut rows of the seismic table for the concrete-cone and
\* pry-out modes, and for any other product those with the 'other' rows.
C30_UndercutRowsForUndercutProducts ==
  SeismicEvaluation =>
    ret = capacities_of(WithSeismicRows(EvaluatedCalculator,
                                        EvaluatedProduct \in UndercutProducts))

(***************************************************************************)
(* Concurrent evaluations                                                  *)
(* Several callers evaluate at once, each as calculate_anchor_capacity_etag *)
(* does and then checking the interaction: catalog lookup, construction of  *)
(* the calculator with its factor selection, tension, shear, interaction.   *)
(* Here obj holds the module's three tables and, per evaluation, the local  *)
(* variables of its caller; call and ret hold each evaluation's call and    *)
(* outcome; stdout is the one standard output they all print to.  The       *)
(* steps of different evaluations interleave in every order.                *)
(***************************************************************************)
MaxEvaluations == 2

\* Lines on standard output after which no further evaluation starts.
MaxLines == 2

Evaluations == 1..MaxEvaluations

\* HUS4-H 12 mm at 79.9 mm near an edge.
EvaluationBase ==
  [thickness_concrete |-> 3000, diameter |-> 120, embedment_depth |-> 79900,
   edge_distance |-> 600, edge_distance_c2 |-> None, number_of_anchors |-> 1,
   concrete_grade |-> "C20/25", is_cracked_concrete |-> TRUE,
   anchor_product |-> "HUS4-H", spacing |-> None, spacing_x |-> None,
   spacing_y |-> None, e_N_x |-> 0, e_N_y |-> 0, e_V |-> 0, alpha_gap |-> 2,
   seismic_design |-> FALSE, has_edge_reinforcement |-> FALSE]

\* Evaluations that return, one of them with seismic design and a depth
\* of 55 mm for which the lookup prints the substituted 60 mm, one whose
\* lookup raises and one whose constructor raises.
EvaluationInputs ==
  {EvaluationBase,
   [EvaluationBase EXCEPT !.anchor_product = "HDA", !.embedment_depth = 55000,
                          !.seismic_design = TRUE, !.edge_distance = 1500],
   [EvaluationBase EXCEPT !.anchor_product = "HUS9"],
   [EvaluationBase EXCEPT !.number_of_anchors = 2]}

EvaluationDemands == {DemandStep}

\* The local variables of an evaluation that has not started.  pc names
\* the step the evaluation takes next.
EmptyFrame ==
  [pc |-> "idle", locals |-> None, calculator |-> None, tension |-> None,
   shear |-> None]

\* The module's tables, as loaded.
InitialTables ==
  [ETA_DATABASE |-> ETA_DATABASE,
   EOTA_TR045_SEISMIC_FACTORS |-> EOTA_TR045_SEISMIC_FACTORS,
   ETAG_001_PARTIAL_SAFETY_FACTORS |-> ETAG_001_PARTIAL_SAFETY_FACTORS]

\* The tables as they are now.
Tables == [t \in DOMAIN InitialTables |-> obj[t]]

UnderWay(i) == obj.frames[i].pc \notin {"idle", "done"}

\* Evaluation i takes a step that leaves it at pc with its local variables
\* changed as in frame.
Step(frames, i, frame, pc) == [frames EXCEPT ![i] = [frame EXCEPT !.pc = pc]]

\* A calculator attribute kept on the class: every instance sees the one
\* assigned last.
assign_class(frames, i, calculator) ==
  [j \in DOMAIN frames |-> [frames[j] EXCEPT !.calculator = Some(calculator)]]

\* __init__ assigns self.anchor and, in _initialize_factors, the factors to
\* the instance: the calculator of evaluation i alone.
assign_instance(frames, i, calculator) ==
  [frames EXCEPT ![i].calculator = Some(calculator)]

ConcurrentInit ==
  /\ obj = InitialTables @@ [frames |-> [i \in Evaluations |-> EmptyFrame]]
  /\ call = [i \in Evaluations |-> Call("none", <<>>)]
  /\ ret = [i \in Evaluations |-> NoReturn]
  /\ stdout = <<>>

\* A caller starts evaluation i with keyword arguments kw and demand.
Start(i, kw, demand) ==
  /\ obj.frames[i].pc = "idle"
  /\ Len(stdout) < MaxLines
  /\ obj' = [obj EXCEPT !.frames = Step(@, i, EmptyFrame, "lookup")]
  /\ call' = [call EXCEPT ![i] = Call("evaluate", <<kw, demand>>)]
  /\ UNCHANGED <<ret, stdout>>

\* Evaluation i ends with result.
End(i, result) ==
  /\ obj' = [obj EXCEPT !.frames = Step(@, i, @[i], "done")]
  /\ ret' = [ret EXCEPT ![i] = result]

\* The name decoded, the grade converted and the catalog entry looked up:
\* the first lines of calculate_anchor_capacity_etag, reading the catalog.
Lookup(i) ==
  /\ obj.frames[i].pc = "lookup"
  /\ \E parsed \in {try_parse_anchor_string_from(obj.ETA_DATABASE,
                                                call[i].args[1].anchor_product)},
        f_ck \in {convert_concrete_grade_to_fck(call[i].args[1].concrete_grade)} :
       LET kw == call[i].args[1]
           diameter == IF parsed[2] # None THEN parsed[2][1] ELSE kw.diameter
           embedment_depth ==
             IF parsed[3] # None THEN parsed[3][1] ELSE kw.embedment_depth
       IN  IF Raised(f_ck) THEN End(i, f_ck) /\ UNCHANGED stdout
           ELSE \E eta \in
                  {get_eta_values_from(
                     obj.ETA_DATABASE,
                     try_parse_anchor_string_from(obj.ETA_DATABASE, parsed[1]),
                     diameter, embedment_depth, kw.concrete_grade)} :
                  /\ stdout' = stdout \o eta.printed
                  /\ IF Raised(eta.result) THEN End(i, eta.result)
                     ELSE /\ obj' = [obj EXCEPT !.frames =
                                      Step(@, i,
                                           [@[i] EXCEPT !.locals =
                                              Some([diameter |-> diameter,
                                                    embedment_depth |-> embedment_depth,
                                                    f_ck |-> f_ck.value,
                                                    eta_values |-> eta.result.value])],
                                           "construct")]
                          /\ UNCHANGED ret
  /\ UNCHANGED call

\* AnchorProperties_ETAG(...) and MetalAnchorCapacity_ETAG001_TR045(...):
\* validation and the factor selection, reading the seismic and the
\* safety-factor table.
Construct(i) ==
  /\ obj.frames[i].pc = "construct"
  /\ \E anchor \in
          {post_init(anchor_props_of(call[i].args[1],
                                     obj.frames[i].locals[1].diameter,
                                     obj.frames[i].locals[1].embedment_depth,
                                     obj.frames[i].locals[1].f_ck,
                                     obj.frames[i].locals[1].eta_values))} :
       \E error \in {validate_inputs(anchor)} :
         /\ stdout' = stdout \o validate_warning(anchor)
         /\ IF Raised(error) THEN End(i, error)
            ELSE \E assigned \in
                   {assign_instance(
                      obj.frames, i,
                      initialize_factors_from(obj.EOTA_TR045_SEISMIC_FACTORS,
                                              obj.ETAG_001_PARTIAL_SAFETY_FACTORS,
                                              anchor))} :
                   /\ obj' = [obj EXCEPT !.frames =
                               Step(assigned, i, assigned[i], "tension")]
                   /\ UNCHANGED ret
  /\ UNCHANGED call

\* calculator.calculate_tension_capacity_ETAG_5_2_2().
Tension(i) ==
  /\ obj.frames[i].pc = "tension"
  /\ \E tension_result \in
          {calculate_tension_capacity_ETAG_5_2_2(obj.frames[i].calculator[1])} :
       IF Raised(tension_result) THEN End(i, tension_result)
       ELSE /\ obj' = [obj EXCEPT !.frames =
                        Step(@, i, [@[i] EXCEPT !.tension = Some(tension_result.value)],
                             "shear")]
            /\ UNCHANGED ret
  /\ UNCHANGED <<call, stdout>>

\* calculator.calculate_shear_capacity_ETAG_5_2_3().
Shear(i) ==
  /\ obj.frames[i].pc = "shear"
  /\ \E shear_result \in
          {calculate_shear_capacity_ETAG_5_2_3(obj.frames[i].calculator[1])} :
       IF Raised(shear_result) THEN End(i, shear_result)
       ELSE /\ obj' = [obj EXCEPT !.frames =
                        Step(@, i, [@[i] EXCEPT !.shear = Some(shear_result.value)],
                             "interaction")]
            /\ UNCHANGED ret
  /\ UNCHANGED <<call, stdout>>

\* calculator.check_interaction(N_Ed, V_Ed); the evaluation returns the two
\* capacities and the interaction.
Interaction(i) ==
  /\ obj.frames[i].pc = "interaction"
  /\ \E interaction \in
          {check_interaction(obj.frames[i].calculator[1],
                             call[i].args[2].N_Ed, call[i].args[2].V_Ed)} :
       IF Raised(interaction) THEN End(i, interaction)
       ELSE End(i, Return([capacities |-> <<obj.frames[i].tension[1].N_Rd,
                                             obj.frames[i].shear[1].V_Rd>>,
                           interaction |-> interaction.value]))
  /\ UNCHANGED <<call, stdout>>

\* The caller of evaluation i takes its outcome and drops what it holds.
Collect(i) ==
  /\ obj.frames[i].pc = "done"
  /\ obj' = [obj EXCEPT !.frames[i] = EmptyFrame]
  /\ call' = [call EXCEPT ![i] = Call("none", <<>>)]
  /\ ret' = [ret EXCEPT ![i] = NoReturn]
  /\ UNCHANGED stdout

\* With no evaluation under way the printed lines are cleared.
Clear ==
  /\ \A i \in Evaluations : obj.frames[i].pc = "idle"
  /\ stdout # <<>>
  /\ stdout' = <<>>
  /\ UNCHANGED <<obj, call, ret>>

ConcurrentNext ==
  \/ \E i \in Evaluations, kw \in EvaluationInputs, demand \in EvaluationDemands :
       Start(i, kw, demand)
  \/ \E i \in Evaluations : Lookup(i)
  \/ \E i \in Evaluations : Construct(i)
  \/ \E i \in Evaluations : Tension(i)
  \/ \E i \in Evaluations : Shear(i)
  \/ \E i \in Evaluations : Interaction(i)
  \/ \E i \in Evaluations : Collect(i)
  \/ Clear

ConcurrentSpec == ConcurrentInit /\ [][ConcurrentNext]_vars

\* The outcome of the evaluation of kw and demand run alone: the capacities
\* calculate_anchor_capacity_etag returns and the interaction of its
\* calculator, or the first exception.
evaluate_alone(kw, demand) ==
  CHOOSE result \in
    {IF Raised(out.result) THEN out.result
     ELSE LET interaction ==
                check_interaction(calculator_of(kw), demand.N_Ed, demand.V_Ed)
          IN  IF Raised(interaction) THEN interaction
              ELSE Return([capacities |-> out.result.value,
                           interaction |-> interaction.value]) :
       out \in {calculate_anchor_capacity_etag(kw)}} : TRUE

\* The outcomes alone of the evaluations of the arguments in S, computed
\* once and tabulated.
RECURSIVE outcomes_alone(_)
outcomes_alone(S) ==
  IF S = {} THEN <<>>
  ELSE LET x == CHOOSE y \in S : TRUE
       IN  (x :> evaluate_alone(x[1], x[2])) @@ outcomes_alone(S \ {x})

\* The outcome alone of every evaluation that can start.
alone == outcomes_alone(EvaluationInputs \X EvaluationDemands)

\* C21: in every interleaving of the steps of the evaluations each
\* evaluation that has ended has the outcome it has when run alone, the
\* tension and shear capacities an evaluation under way has computed are
\* those it computes alone, and the product catalog, the seismic table and
\* the safety-factor table hold their initial contents.
C21_EvaluationsIndependent ==
  /\ \A i \in Evaluations :
       /\ obj.frames[i].pc = "done" => ret[i] = alone[call[i].args]
       /\ obj.frames[i].pc \in {"shear", "interaction"} =>
            /\ Returned(alone[call[i].args])
            /\ obj.frames[i].tension[1].N_Rd
                 = alone[call[i].args].value.capacities[1]
       /\ obj.frames[i].pc = "interaction" =>
            obj.frames[i].shear[1].V_Rd = alone[call[i].args].value.capacities[2]
  /\ Tables = InitialTables

\* Two evaluations of different arguments are under way at once, neither
\* having run alone: each has looked up the catalog, selected its factors
\* and computed its tension and shear capacities, which differ between the
\* two and are those each has alone.
C21_Witness ==
  \E i \in Evaluations, j \in Evaluations :
    /\ i # j
    /\ obj.frames[i].pc = "interaction" /\ obj.frames[j].pc = "interaction"
    /\ call[i] # call[j]
    /\ obj.frames[i].tension[1].N_Rd # obj.frames[j].tension[1].N_Rd
    /\ \A k \in {i, j} :
         <<obj.frames[k].tension[1].N_Rd, obj.frames[k].shear[1].V_Rd>>
           = alone[call[k].args].value.capacities

====
